---- MODULE Spec2Model ----
(***************************************************************************)
(* A model of hagelslag/processing/TrackModeler.py: the table join         *)
(* pipeline (load_data), the four model registries with their fit and      *)
(* predict operations, the discretization codec, the persistence layer     *)
(* (save_models / load_models) and the forecast exporter.                  *)
(*                                                                         *)
(* Strings are sequences of atoms.  An atom is either one of the           *)
(* delimiter characters "_", "-", " ", "/" or a maximal delimiter-free     *)
(* piece of text, so str.split, str.replace and str.format act on atoms    *)
(* exactly as they act on characters.  Real-valued table cells are held    *)
(* as a whole number of halves (3 stands for 1.5), so that astype(int)     *)
(* truncates.                                                              *)
(***************************************************************************)
EXTENDS Integers, Sequences, FiniteSets, TLC

VARIABLES
    data,                       \* self.data: mode -> {table name -> rows}
    condition_models,           \* self.condition_models
    size_models,                \* self.size_models
    size_distribution_models,   \* self.size_distribution_models
    track_models,               \* self.track_models
    forecasts,                  \* the prediction tables returned by predict_*
    dates,                      \* self.start_dates, self.end_dates: mode -> day
    disk,                       \* the files the program reads and writes
    call                        \* the last call: its name, arguments, outcome;
                                \* for the parallel export also the position
                                \* of the caller and of every unit of its pool

vars == <<data, condition_models, size_models, size_distribution_models,
          track_models, forecasts, dates, disk, call>>

----------------------------------------------------------------------------
(* Bounds of the model.                                                    *)

MaxStart == 2
MaxStop == 4

----------------------------------------------------------------------------
(* Python and numpy primitives.                                            *)

\* dict[key] = value
Put(f, k, v) == [x \in (DOMAIN f) \cup {k} |-> IF x = k THEN v ELSE f[x]]

\* An empty dict.
EmptyDict == [x \in {} |-> 0]

\* numpy astype(int) of the real h/2: truncation toward zero.
AsInt(h) == IF h >= 0 THEN h \div 2 ELSE -((-h) \div 2)

\* np.arange(a, b, s) for s > 0.
Arange(a, b, s) ==
    LET n == IF b > a THEN (b - a + s - 1) \div s ELSE 0
    IN  [i \in 1..n |-> a + (i - 1) * s]

RECURSIVE SumSeq(_)
SumSeq(s) == IF s = <<>> THEN 0 ELSE Head(s) + SumSeq(Tail(s))

Range(s) == {s[i] : i \in DOMAIN s}

\* np.unique / sorted(): the elements of a set of integers in increasing order.
RECURSIVE SortedSeq(_)
SortedSeq(S) ==
    IF S = {} THEN <<>>
    ELSE LET m == CHOOSE x \in S : \A y \in S : x <= y
         IN  <<m>> \o SortedSeq(S \ {m})

MinOf(S) == CHOOSE x \in S : \A y \in S : x <= y
MaxOf(S) == CHOOSE x \in S : \A y \in S : x >= y

\* np.where(values == c)[0]: the (1-based) indices at which values holds c.
WhereEq(values, c) == {i \in DOMAIN values : values[i] = c}

----------------------------------------------------------------------------
(* Strings as sequences of atoms.                                          *)

\* str.replace(a, b) for one-character a and b.
Replace(s, a, b) == [i \in DOMAIN s |-> IF s[i] = a THEN b ELSE s[i]]

\* str.split(d): the pieces between the occurrences of d, empty ones kept.
RECURSIVE SplitFrom(_, _, _)
SplitFrom(s, d, cur) ==
    IF s = <<>> THEN <<cur>>
    ELSE IF Head(s) = d THEN <<cur>> \o SplitFrom(Tail(s), d, <<>>)
    ELSE SplitFrom(Tail(s), d, Append(cur, Head(s)))

Split(s, d) == SplitFrom(s, d, <<>>)

\* sep.join(parts)
RECURSIVE Join(_, _)
Join(parts, sep) ==
    IF parts = <<>> THEN <<>>
    ELSE IF Len(parts) = 1 THEN parts[1]
    ELSE parts[1] \o <<sep>> \o Join(Tail(parts), sep)

\* a in b, for strings: a occurs in b as a contiguous piece.
Contains(b, a) ==
    \E i \in 0..(Len(b) - Len(a)) : \A j \in 1..Len(a) : b[i + j] = a[j]

\* s[:-n]
DropLast(s, n) == SubSeq(s, 1, Len(s) - n)

\* seq[-k]
FromEnd(s, k) == s[Len(s) + 1 - k]

----------------------------------------------------------------------------
(* The tables.  A table is the sequence of its rows; a cell that holds a   *)
(* real number holds it in halves.                                         *)

Modes == {"train", "forecast"}

\* Cells that pandas reads as NaN, inf and -inf.
NaN == 9999
PosInf == 9998
NegInf == 9997

\* DataFrame.fillna(0) followed by replace([inf, -inf], 0), on one cell.
FillNa(v) == IF v \in {NaN, PosInf, NegInf} THEN 0 ELSE v

TotalFill(r) ==
    [r EXCEPT !.Start_Time_Error = FillNa(@),
              !.Translation_Error_X = FillNa(@),
              !.Translation_Error_Y = FillNa(@)]

StepFill(r) == [r EXCEPT !.Hail_Size = FillNa(@), !.Scale = FillNa(@)]

MapSeq(Op(_), s) == [i \in DOMAIN s |-> Op(s[i])]

\* pd.concat(tables, ignore_index=True)
RECURSIVE Concat(_)
Concat(tables) ==
    IF tables = <<>> THEN <<>> ELSE Head(tables) \o Concat(Tail(tables))

\* DataFrame.drop_duplicates("Step_ID"): the first row of every Step_ID.
DropDuplicates(rows) ==
    LET keep(i) == \A j \in 1..(i - 1) : rows[j].Step_ID # rows[i].Step_ID
        RECURSIVE From(_)
        From(i) == IF i > Len(rows) THEN <<>>
                   ELSE (IF keep(i) THEN <<rows[i]>> ELSE <<>>) \o From(i + 1)
    IN  From(1)

\* pd.merge(step, total, on="Track_ID", suffixes=("_Step", "_Total")): an inner
\* join in the order of the left table; the one column the two tables share
\* besides the key, Duration, is kept twice.
StepTotalRow(s, t) ==
    [Step_ID |-> s.Step_ID, Track_ID |-> s.Track_ID, Hail_Size |-> s.Hail_Size,
     Input |-> s.Input, Scale |-> s.Scale,
     Duration_Step |-> s.Duration, Duration_Total |-> t.Duration,
     Ensemble_Name |-> t.Ensemble_Name, Ensemble_Member |-> t.Ensemble_Member,
     Start_Time_Error |-> t.Start_Time_Error,
     Translation_Error_X |-> t.Translation_Error_X,
     Translation_Error_Y |-> t.Translation_Error_Y]

\* The rows Row(l, r) of an inner join on Key, in pandas' order: the left rows
\* in order, each with its matches in the order of the right table.
InnerJoin(left, right, Key(_), Row(_, _)) ==
    LET matches(l) ==
            LET RECURSIVE From(_)
                From(j) == IF j > Len(right) THEN <<>>
                           ELSE (IF Key(right[j]) = Key(l)
                                 THEN <<Row(l, right[j])>> ELSE <<>>) \o From(j + 1)
            IN  From(1)
        RECURSIVE All(_)
        All(i) == IF i > Len(left) THEN <<>> ELSE matches(left[i]) \o All(i + 1)
    IN  All(1)

TrackKey(r) == r.Track_ID
MemberKey(r) == r.Ensemble_Member

\* A faulty variant of ComboMemberRow that gives every joined row the group of
\* the first listed member.
ComboMemberRowFirstGroup(c, m) ==
    [Step_ID |-> c.Step_ID, Track_ID |-> c.Track_ID, Hail_Size |-> c.Hail_Size,
     Input |-> c.Input, Scale |-> c.Scale,
     Duration_Step |-> c.Duration_Step, Duration_Total |-> c.Duration_Total,
     Ensemble_Name |-> c.Ensemble_Name, Ensemble_Member |-> c.Ensemble_Member,
     Start_Time_Error |-> c.Start_Time_Error,
     Translation_Error_X |-> c.Translation_Error_X,
     Translation_Error_Y |-> c.Translation_Error_Y,
     group |-> <<"A">>]

\* pd.merge(combo, member, on="Ensemble_Member")
ComboMemberRow(c, m) ==
    [Step_ID |-> c.Step_ID, Track_ID |-> c.Track_ID, Hail_Size |-> c.Hail_Size,
     Input |-> c.Input, Scale |-> c.Scale,
     Duration_Step |-> c.Duration_Step, Duration_Total |-> c.Duration_Total,
     Ensemble_Name |-> c.Ensemble_Name, Ensemble_Member |-> c.Ensemble_Member,
     Start_Time_Error |-> c.Start_Time_Error,
     Translation_Error_X |-> c.Translation_Error_X,
     Translation_Error_Y |-> c.Translation_Error_Y,
     group |-> m.group]

\* pd.merge(total, member, on="Ensemble_Member")
TotalMemberRow(t, m) ==
    [Track_ID |-> t.Track_ID, Duration |-> t.Duration,
     Ensemble_Name |-> t.Ensemble_Name, Ensemble_Member |-> t.Ensemble_Member,
     Start_Time_Error |-> t.Start_Time_Error,
     Translation_Error_X |-> t.Translation_Error_X,
     Translation_Error_Y |-> t.Translation_Error_Y,
     group |-> m.group]

----------------------------------------------------------------------------
(* load_data.                                                              *)

\* sorted(glob(...)) filtered to the run dates: the files of one mode and one
\* kind whose embedded date lies in [start, end], in the order of their names.
DatedFiles(csv, mode, kind, start, end) ==
    LET days == {f.date : f \in {g \in csv : g.mode = mode /\ g.kind = kind
                                             /\ g.date >= start /\ g.date <= end}}
        file(d) == CHOOSE f \in csv : f.mode = mode /\ f.kind = kind /\ f.date = d
    IN  MapSeq(file, SortedSeq(days))

FileRows(f) == f.rows

\* The cache of one mode after load_data(mode), and whether the call raised.
\* pd.concat raises ValueError when it is given no table; what was assigned
\* before the exception stays assigned.
LoadDataResult(old, csv, member, mode, start, end) ==
    LET total_track_files == DatedFiles(csv, mode, "total", start, end)
        step_track_files == DatedFiles(csv, mode, "step", start, end)
        total == MapSeq(TotalFill, Concat(MapSeq(FileRows, total_track_files)))
        step0 == MapSeq(StepFill, Concat(MapSeq(FileRows, step_track_files)))
        step == IF mode = "forecast" THEN DropDuplicates(step0) ELSE step0
        combo0 == InnerJoin(step, total, TrackKey, StepTotalRow)
        combo == InnerJoin(combo0, member, MemberKey, ComboMemberRow)
        total_group == InnerJoin(total, member, MemberKey, TotalMemberRow)
    IN  IF total_track_files = <<>>
        THEN [cache |-> old, raised |-> "ValueError"]
        ELSE IF step_track_files = <<>>
        THEN [cache |-> Put(old, "total", total), raised |-> "ValueError"]
        ELSE [cache |-> Put(Put(Put(Put(Put(old, "total", total), "step", step),
                                    "member", member), "combo", combo),
                            "total_group", total_group),
              raised |-> ""]

\* load_data(mode): the whole handler.  A mode that is not a key of self.data
\* is ignored (line 53).
LoadData(mode) ==
    /\ mode \in DOMAIN data
    /\ LET r == LoadDataResult(data[mode], disk.csv, disk.member[mode], mode,
                               dates[mode].start, dates[mode].end)
       IN  /\ data' = [data EXCEPT ![mode] = r.cache]
           /\ call' = [op |-> "load_data", mode |-> mode, raised |-> r.raised]
    /\ UNCHANGED <<condition_models, size_models, size_distribution_models,
                   track_models, forecasts, dates, disk>>

----------------------------------------------------------------------------
(* The model registries.  A registry entry is a dict from a key (a model   *)
(* name, or "outputvalues", "mean", "sd") to an object: a model handle or  *)
(* an array.                                                               *)

\* deepcopy(model_objs[m]): a handle that has not been fitted.
UnfittedModel(m) == [kind |-> "model", obj |-> m, fitted |-> FALSE, y |-> <<>>]

\* The handle after fit(X, y) returned.
FittedModel(m, y) == [kind |-> "model", obj |-> m, fitted |-> TRUE, y |-> y]

Array(values) == [kind |-> "array", values |-> values]

OutputValues == <<"outputvalues">>

\* classes_ of a fitted classifier: the distinct labels it was fitted to,
\* in increasing order.
Classes(h) == SortedSeq(Range(h.y))

\* Series.unique(): the values in the order of their first appearance.
RECURSIVE Unique(_)
Unique(s) ==
    IF s = <<>> THEN <<>>
    ELSE LET u == Unique(DropLast(s, 1))
             x == s[Len(s)]
         IN  IF x \in Range(u) THEN u ELSE Append(u, x)

GroupOf(r) == r.group

\* A faulty variant of GroupData that selects nothing: every row of the
\* table, whatever its group.
GroupDataOfAll(combo, group) == combo

\* combo.loc[combo[group_col] == group]
GroupData(combo, group) == SelectSeq(combo, LAMBDA r : r.group = group)

NoFailure == [group |-> <<>>, type |-> <<>>, m |-> 0]

\* The loop over model_names of every fit_* (lines 160-163, 208-212, 274-277,
\* 347-350): the copy is stored in the entry first and fitted in place.  The
\* fit of a model raises when it is given no training row or a label that is
\* NaN, and when the caller's model object fails (failAt = m); the exception leaves the loop.
\* FailIndex is the index of the model whose fit raises, 0 when none does.
FailIndex(model_names, y, failAt) ==
    IF model_names = <<>> THEN 0
    ELSE IF y = <<>> \/ NaN \in Range(y) THEN 1
    ELSE IF failAt \in DOMAIN model_names THEN failAt
    ELSE 0

FitInto(entry, model_names, y, failAt) ==
    LET k == FailIndex(model_names, y, failAt)
        last == IF k = 0 THEN Len(model_names) ELSE k
        index(key) == MaxOf({m \in 1..last : model_names[m] = key})
    IN  [entry |-> [key \in (DOMAIN entry) \cup {model_names[m] : m \in 1..last} |->
                       IF \E m \in 1..last : model_names[m] = key
                       THEN IF index(key) = k THEN UnfittedModel(k)
                            ELSE FittedModel(index(key), y)
                       ELSE entry[key]],
         raised |-> IF k = 0 THEN "" ELSE "FitError"]

\* The loop over the groups of a fit_*: base[g] is the entry the code
\* assigns before it fits the group's models, labels[g] the labels it hands
\* to fit.  The loop ends at the first group one of whose fits raises;
\* visited lists the groups the loop reached.
FitGroups(reg, groups, base, labels, model_names, fail) ==
    LET failAt(g) == IF fail.group = g THEN fail.m ELSE 0
        raising == {i \in DOMAIN groups :
                       FailIndex(model_names, labels[groups[i]], failAt(groups[i])) # 0}
        last == IF raising = {} THEN Len(groups) ELSE MinOf(raising)
        visited == SubSeq(groups, 1, last)
    IN  [reg |-> [g \in (DOMAIN reg) \cup Range(visited) |->
                     IF g \in Range(visited)
                     THEN FitInto(base[g], model_names, labels[g], failAt(g)).entry
                     ELSE reg[g]],
         raised |-> IF raising = {} THEN "" ELSE "FitError",
         visited |-> visited]

\* The values of the group column, in the order of str.
GroupOrder == << <<"A">>, <<"A", "_", "1">>, <<"B">> >>

\* np.unique of a sequence of groups: its distinct values, sorted.
NpUnique(s) == SelectSeq(GroupOrder, LAMBDA g : g \in Range(s))

\* self.data["train"]["member"][self.group_col].unique()
GroupsOf(train) == Unique(MapSeq(GroupOf, train["member"]))

TrainGroups == GroupsOf(data["train"])

TrainLoaded == "combo" \in DOMAIN data["train"]

----------------------------------------------------------------------------
(* The discretization codec.                                               *)

\* Lines 267-268: output_data of fit_size_models before it is clipped.
SizeOutputData(group_data, output_start) ==
    LET kept == SelectSeq(group_data, LAMBDA r : r.Hail_Size >= 2 * output_start)
        int(r) == AsInt(r.Hail_Size)
    IN  MapSeq(int, kept)

\* A faulty variant of SizeDiscrete that buckets without clipping to the
\* ceiling first.
SizeDiscreteUnclipped(group_data, output_start, output_step, output_stop) ==
    LET disc(o) == ((o - output_start) \div output_step) * output_step + output_start
    IN  MapSeq(disc, SizeOutputData(group_data, output_start))

\* Lines 267-270: the labels fit_size_models hands to the classifiers.
SizeDiscrete(group_data, output_start, output_step, output_stop) ==
    LET clip(o) == IF o > output_stop THEN output_stop ELSE o
        disc(o) == ((clip(o) - output_start) \div output_step) * output_step
                       + output_start
    IN  MapSeq(disc, SizeOutputData(group_data, output_start))

\* A faulty variant of OutputGrid whose end is the ceiling itself, which
\* np.arange excludes.
OutputGridToStop(start, step, stop) == Arange(start, stop, step)

\* Lines 272-273 and 343-346: the output grid.
OutputGrid(start, step, stop) == Arange(start, stop + step, step)

\* Lines 335 and 338: output_data of fit_track_models before it is clipped.
TrackOutputData(group_data, column) ==
    LET kept == SelectSeq(group_data, LAMBDA r : r.Duration_Step = 1)
        int(r) == AsInt(r[column])
    IN  MapSeq(int, kept)

\* Lines 335 and 338-342: the labels fit_track_models hands to the classifiers
\* of one model type, whose range is <<floor, ceiling, step>>.
TrackDiscrete(group_data, column, range) ==
    LET low(o) == IF o < range[1] THEN range[1] ELSE o
        high(o) == IF o > range[2] THEN range[2] ELSE o
        disc(o) == ((high(low(o)) - range[1]) \div range[3]) * range[3] + range[1]
    IN  MapSeq(disc, TrackOutputData(group_data, column))

\* fit_size_models (lines 260-277) on the training tables train: the
\* registry it leaves, what it raises, the groups it reached and their labels.
SizeFit(train, reg, model_names, output_start, output_step, output_stop, fail) ==
    LET groups == GroupsOf(train)
        labels == [g \in Range(groups) |->
                      SizeDiscrete(GroupData(train["combo"], g), output_start,
                                   output_step, output_stop)]
        base == [g \in Range(groups) |->
                    Put(EmptyDict, OutputValues,
                        Array(OutputGrid(output_start, output_step, output_stop)))]
    IN  [labels |-> labels,
         fit |-> FitGroups(reg, groups, base, labels, model_names, fail)]

\* (A value that an action uses more than once is bound by \E over a
\* singleton, so that it is computed once.)
FitSizeModels(model_names, output_start, output_step, output_stop, fail) ==
    /\ TrainLoaded     \* before load_data the first line raises KeyError
    /\ \E r \in {SizeFit(data["train"], size_models, model_names, output_start,
                         output_step, output_stop, fail)} :
           /\ size_models' = r.fit.reg
           /\ call' = [op |-> "fit_size_models", raised |-> r.fit.raised,
                       model_names |-> model_names,
                       handed |-> {[output_data |->
                                        SizeOutputData(GroupData(data["train"]["combo"], g),
                                                       output_start),
                                    y |-> r.labels[g], floor |-> output_start,
                                    step |-> output_step, ceiling |-> output_stop,
                                    entry |-> r.fit.reg[g]]
                                   : g \in Range(r.fit.visited)}]
    /\ UNCHANGED <<data, condition_models, size_distribution_models, track_models,
                   forecasts, dates, disk>>

TrackTypes ==
    {<<"translation", "-", "x">>, <<"translation", "-", "y">>, <<"start", "-", "time">>}

\* output_columns[model_type], as the package's configuration files give it.
TrackColumn(t) ==
    CASE t = <<"translation", "-", "x">> -> "Translation_Error_X"
      [] t = <<"translation", "-", "y">> -> "Translation_Error_Y"
      [] OTHER -> "Start_Time_Error"

\* The two loops of fit_track_models (lines 332-350) over pairs, the
\* <<group, model type>> pairs in the order the loops visit them.
FitTrackPairs(reg, pairs, labels, output_ranges, model_names, fail) ==
    LET failAt(pr) == IF fail.group = pr[1] /\ fail.type = pr[2] THEN fail.m ELSE 0
        raising == {i \in DOMAIN pairs :
                       FailIndex(model_names, labels[pairs[i]], failAt(pairs[i])) # 0}
        last == IF raising = {} THEN Len(pairs) ELSE MinOf(raising)
        visited == SubSeq(pairs, 1, last)
        base(t) == Put(EmptyDict, OutputValues,
                       Array(OutputGrid(output_ranges[t][1], output_ranges[t][3],
                                        output_ranges[t][2])))
    IN  [reg |-> [t \in DOMAIN reg |->
                     [g \in (DOMAIN reg[t]) \cup {pr[1] : pr \in {q \in Range(visited) : q[2] = t}} |->
                         IF <<g, t>> \in Range(visited)
                         THEN FitInto(base(t), model_names, labels[<<g, t>>],
                                      failAt(<<g, t>>)).entry
                         ELSE reg[t][g]]],
         raised |-> IF raising = {} THEN "" ELSE "FitError",
         visited |-> visited]

\* fit_track_models (lines 331-350) on the training tables train; order is
\* the order in which self.track_models.iteritems() yields the model types.
TrackFit(train, reg, model_names, output_ranges, order, fail) ==
    LET groups == GroupsOf(train)
        pairs == Concat([i \in DOMAIN groups |->
                            [j \in DOMAIN order |-> <<groups[i], order[j]>>]])
        labels == [pr \in Range(pairs) |->
                      TrackDiscrete(GroupData(train["combo"], pr[1]),
                                    TrackColumn(pr[2]), output_ranges[pr[2]])]
    IN  [labels |-> labels,
         fit |-> FitTrackPairs(reg, pairs, labels, output_ranges, model_names, fail)]

FitTrackModels(model_names, output_ranges, order, fail) ==
    /\ TrainLoaded     \* before load_data the first line raises KeyError
    /\ Range(order) = DOMAIN track_models
    /\ DOMAIN track_models = TrackTypes
    /\ \E r \in {TrackFit(data["train"], track_models, model_names, output_ranges,
                          order, fail)} :
           /\ track_models' = r.fit.reg
           /\ call' = [op |-> "fit_track_models", raised |-> r.fit.raised,
                       model_names |-> model_names,
                       handed |-> {[output_data |->
                                        TrackOutputData(
                                            GroupData(data["train"]["combo"], pr[1]),
                                            TrackColumn(pr[2])),
                                    y |-> r.labels[pr],
                                    floor |-> output_ranges[pr[2]][1],
                                    step |-> output_ranges[pr[2]][3],
                                    ceiling |-> output_ranges[pr[2]][2],
                                    entry |-> r.fit.reg[pr[2]][pr[1]]]
                                   : pr \in Range(r.fit.visited)}]
    /\ UNCHANGED <<data, condition_models, size_models, size_distribution_models,
                   forecasts, dates, disk>>

----------------------------------------------------------------------------
(* The families that are not discretized.                                  *)

\* Line 156: np.where(group_data[output_column] > output_threshold, 1, 0).
ConditionLabels(group_data, output_threshold) ==
    LET label(r) == IF r.Hail_Size > 2 * output_threshold THEN 1 ELSE 0
    IN  MapSeq(label, group_data)

\* fit_condition_models (lines 153-166) on the training tables train.
ConditionFit(train, reg, model_names, output_threshold, fail) ==
    LET groups == GroupsOf(train)
    IN  FitGroups(reg, groups, [g \in Range(groups) |-> EmptyDict],
                  [g \in Range(groups) |->
                      ConditionLabels(GroupData(train["combo"], g), output_threshold)],
                  model_names, fail)

FitConditionModels(model_names, output_threshold, fail) ==
    /\ TrainLoaded     \* before load_data the first line raises KeyError
    /\ \E r \in {ConditionFit(data["train"], condition_models, model_names,
                              output_threshold, fail)} :
           /\ condition_models' = r.reg
           /\ call' = [op |-> "fit_condition_models", raised |-> r.raised,
                       model_names |-> model_names]
    /\ UNCHANGED <<data, size_models, size_distribution_models, track_models,
                   forecasts, dates, disk>>

Multi == <<"multi">>
Lognorm == <<"lognorm">>

\* Lines 200-201 and 203: the Scale column of the rows a distribution model
\* is fitted on (of output_columns, the rows of the model carry Scale, the one
\* the filter reads).
DistLabels(group_data) ==
    LET kept == SelectSeq(group_data, LAMBDA r : r.Scale > 0)
        scale(r) == r.Scale
    IN  MapSeq(scale, kept)

\* Lines 204-205: the mean and the spread of the labels, NaN for no label.
\* The spread stands for the standard deviation: it is 0 exactly when the
\* labels are all equal.
LogMeans(labels) == IF labels = <<>> THEN NaN ELSE SumSeq(labels) \div Len(labels)

LogSds(labels) ==
    IF labels = <<>> THEN NaN ELSE MaxOf(Range(labels)) - MinOf(Range(labels))

\* Line 212: (log_labels - log_means) / log_sds, NaN where the spread is 0.
Standardized(labels) ==
    [i \in DOMAIN labels |->
        IF LogSds(labels) = 0 THEN NaN
        ELSE (labels[i] - LogMeans(labels)) \div LogSds(labels)]

\* Lines 202 and 206-207: the entry of a group before its models are fitted.
DistEntry(multi, labels) ==
    Put(Put(EmptyDict, Multi, multi), Lognorm,
        Put(Put(EmptyDict, <<"mean">>, Array(<<LogMeans(labels)>>)),
            <<"sd">>, Array(<<LogSds(labels)>>)))

\* fit_size_distribution_models (lines 197-212) on the training tables
\* train: the models go into the "multi" dict of the group's entry.
SizeDistributionFit(train, reg, model_names, fail) ==
    LET groups == NpUnique(MapSeq(GroupOf, train["member"]))
        labels == [g \in Range(groups) |-> DistLabels(GroupData(train["combo"], g))]
        fit == FitGroups([g \in DOMAIN reg |-> EmptyDict], groups,
                         [g \in Range(groups) |-> EmptyDict],
                         [g \in Range(groups) |-> Standardized(labels[g])],
                         model_names, fail)
    IN  [reg |-> [g \in DOMAIN fit.reg |->
                     IF g \in Range(fit.visited) THEN DistEntry(fit.reg[g], labels[g])
                     ELSE reg[g]],
         raised |-> fit.raised]

FitSizeDistributionModels(model_names, fail) ==
    /\ TrainLoaded     \* before load_data the first line raises KeyError
    /\ \E r \in {SizeDistributionFit(data["train"], size_distribution_models,
                                     model_names, fail)} :
           /\ size_distribution_models' = r.reg
           /\ call' = [op |-> "fit_size_distribution_models", raised |-> r.raised,
                       model_names |-> model_names]
    /\ UNCHANGED <<data, condition_models, size_models, track_models, forecasts,
                   dates, disk>>

----------------------------------------------------------------------------
(* Prediction of the discretized families.                                 *)

MaxProb == 3

\* predict_proba of a fitted classifier on one row: one probability (in units
\* of 1/MaxProb) per class of classes_, a function of the fitted handle and of
\* the row's input columns.
PredictProba(h, x) ==
    [k \in 1..Len(Classes(h)) |-> (x * k + h.obj) % (MaxProb + 1)]

\* "{0:02d}".format(p)
Fmt02d(p) ==
    IF p < 0 THEN <<"-", (IF p > -10 THEN "0" ELSE "") \o ToString(0 - p)>>
    ELSE <<(IF p < 10 THEN "0" ELSE "") \o ToString(p)>>

\* Lines 301 and 377: the names of the prediction columns of one model.
PredColNames(model_name, output_values) ==
    [i \in DOMAIN output_values |->
        Replace(model_name, " ", "-") \o <<"_">> \o Fmt02d(output_values[i])]

\* Lines 305-308 and 381-384: the dense vector over the output grid.  Every
\* class is looked up by value, np.where(output_values == pc)[0][0]; a class
\* at the same index as an earlier one overwrites it.
LookupFails(pred_classes, output_values) ==
    \E pcv \in DOMAIN pred_classes : WhereEq(output_values, pred_classes[pcv]) = {}

ClassIndex(output_values, pc) == MinOf(WhereEq(output_values, pc))

\* A faulty variant of PredPdf that stores the probability of the class at
\* position pcv in bucket pcv, without looking the class up in the grid.
PredPdfByPosition(pred_vals, pred_classes, output_values) ==
    [idx \in DOMAIN output_values |->
        IF idx \in DOMAIN pred_vals THEN pred_vals[idx] ELSE 0]

PredPdf(pred_vals, pred_classes, output_values) ==
    [idx \in DOMAIN output_values |->
        LET hits == {pcv \in DOMAIN pred_classes :
                        ClassIndex(output_values, pred_classes[pcv]) = idx}
        IN  IF hits = {} THEN 0 ELSE pred_vals[MaxOf(hits)]]

TrackIdCol == <<"Track", "_", "ID">>
StepIdCol == <<"Step", "_", "ID">>

\* metadata_cols, as the package's configuration files give it.
MetadataCols == <<TrackIdCol, StepIdCol>>

MetaRow(r) == <<r.Track_ID, r.Step_ID>>

\* The table of one model: the metadata columns and the prediction columns.
PdfTable(group_data, h, model_name, output_values) ==
    [columns |-> MetadataCols \o PredColNames(model_name, output_values),
     rows |-> [i \in DOMAIN group_data |->
                  MetaRow(group_data[i])
                      \o PredPdf(PredictProba(h, group_data[i].Input), Classes(h),
                                 output_values)]]

\* What the body of the loop over groups (lines 295-310, 371-386) raises for
\* one registry entry, "" when it raises nothing: the first model name, in
\* the order of model_names, that is no key of the entry, is not fitted, or
\* has a class that is not in the grid.
RECURSIVE ModelsError(_, _, _)
ModelsError(entry, model_names, m) ==
    IF m > Len(model_names) THEN ""
    ELSE IF model_names[m] \notin DOMAIN entry THEN "KeyError"
    ELSE IF entry[model_names[m]].kind # "model" \/ ~entry[model_names[m]].fitted
         THEN "NotFittedError"
    ELSE IF LookupFails(Classes(entry[model_names[m]]), entry[OutputValues].values)
         THEN "IndexError"
    ELSE ModelsError(entry, model_names, m + 1)

PdfGroupError(entry, group_data, model_names) ==
    IF group_data = <<>> THEN ""
    ELSE IF OutputValues \notin DOMAIN entry THEN "KeyError"
    ELSE ModelsError(entry, model_names, 1)

\* predictions[group] of predict_size_models, predictions[model_type][group] of
\* predict_track_models.
PdfGroupTables(entry, group_data, model_names) ==
    [n \in Range(model_names) |->
        PdfTable(group_data, entry[n], n, entry[OutputValues].values)]

\* The raw class probabilities predict_proba returned for the rows of a group.
RawProba(entry, group_data, model_names) ==
    [n \in Range(model_names) |->
        [i \in DOMAIN group_data |->
            [vals |-> PredictProba(entry[n], group_data[i].Input),
             classes |-> Classes(entry[n])]]]

ForecastLoaded == "combo" \in DOMAIN data["forecast"]

\* The groups of a registry that have rows in the table combo.
WithRows(reg, combo) == {g \in DOMAIN reg : GroupData(combo, g) # <<>>}

\* The exceptions the loop over the groups of a registry can end with: the
\* one of the first failing group, in the order the dict yields its keys.
RegistryErrors(reg, combo, model_names) ==
    {PdfGroupError(reg[g], GroupData(combo, g), model_names) : g \in DOMAIN reg} \ {""}

\* The predictions of predict_size_models when it raises nothing, and of
\* predict_track_models for one model type.
SizePredictions(reg, combo, model_names) ==
    [g \in WithRows(reg, combo) |->
        PdfGroupTables(reg[g], GroupData(combo, g), model_names)]

\* predict_size_models (lines 292-311).
PredictSizeModels(model_names) ==
    /\ ForecastLoaded  \* before load_data the loop raises KeyError
    /\ \E combo \in {data["forecast"]["combo"]} :
       \E errs \in {RegistryErrors(size_models, combo, model_names)} :
           IF errs # {}
           THEN /\ \E e \in errs : call' = [op |-> "predict_size_models", raised |-> e]
                /\ UNCHANGED forecasts
           ELSE /\ forecasts' =
                       Put(EmptyDict, "size", SizePredictions(size_models, combo, model_names))
                /\ call' = [op |-> "predict_size_models", raised |-> "",
                            proba |-> Put(EmptyDict, "size",
                                [g \in WithRows(size_models, combo) |->
                                    RawProba(size_models[g], GroupData(combo, g),
                                             model_names)])]
    /\ UNCHANGED <<data, condition_models, size_models, size_distribution_models,
                   track_models, dates, disk>>

TrackPredictions(reg, combo, model_names) ==
    [t \in DOMAIN reg |-> SizePredictions(reg[t], combo, model_names)]

\* predict_track_models (lines 366-387).
PredictTrackModels(model_names) ==
    /\ ForecastLoaded  \* before load_data the loop raises KeyError
    /\ \E combo \in {data["forecast"]["combo"]} :
       \E errs \in {UNION {RegistryErrors(track_models[t], combo, model_names)
                              : t \in DOMAIN track_models}} :
           IF errs # {}
           THEN /\ \E e \in errs : call' = [op |-> "predict_track_models", raised |-> e]
                /\ UNCHANGED forecasts
           ELSE /\ forecasts' =
                       Put(EmptyDict, "track",
                           TrackPredictions(track_models, combo, model_names))
                /\ call' = [op |-> "predict_track_models", raised |-> "",
                            proba |-> [t \in DOMAIN track_models |->
                                [g \in WithRows(track_models[t], combo) |->
                                    RawProba(track_models[t][g], GroupData(combo, g),
                                             model_names)]]]
    /\ UNCHANGED <<data, condition_models, size_models, size_distribution_models,
                   track_models, dates, disk>>

\* What predict_condition_models (lines 182-191) raises for one group, "" for
\* nothing: predict_proba(...)[:, 1] needs a fitted model of two classes.
ConditionGroupError(entry, group_data, model_names) ==
    IF group_data = <<>> THEN ""
    ELSE IF \E m \in DOMAIN model_names : model_names[m] \notin DOMAIN entry
         THEN "KeyError"
    ELSE IF \E m \in DOMAIN model_names : ~entry[model_names[m]].fitted
         THEN "NotFittedError"
    ELSE IF \E m \in DOMAIN model_names : Len(Classes(entry[model_names[m]])) < 2
         THEN "IndexError"
    ELSE ""

\* predictions of predict_condition_models: per group, the metadata columns
\* and one column per model, the probability of class 1.
ConditionPredictions(reg, combo, model_names) ==
    [g \in WithRows(reg, combo) |->
        LET group_data == GroupData(combo, g)
        IN  [columns |-> MetadataCols \o model_names,
             rows |-> [i \in DOMAIN group_data |->
                          MetaRow(group_data[i])
                              \o [m \in DOMAIN model_names |->
                                     PredictProba(reg[g][model_names[m]],
                                                  group_data[i].Input)[2]]]]]

\* What predict_size_distribution_models (lines 216-238) raises for one group.
DistGroupError(entry, group_data, model_names) ==
    IF group_data = <<>> THEN ""
    ELSE IF \E m \in DOMAIN model_names : model_names[m] \notin DOMAIN entry[Multi]
         THEN "KeyError"
    ELSE IF \E m \in DOMAIN model_names : ~entry[Multi][model_names[m]].fitted
         THEN "NotFittedError"
    ELSE ""

\* Lines 226-228: the shape, location and scale a fitted regressor predicts
\* for a row, de-standardized; a function of the handle, of the row's input
\* and of the stored mean and spread.
DistPredict(h, x, log_mean, log_sd) ==
    [p \in 1..3 |-> (x * p + h.obj) * log_sd + log_mean]

DistColNames(model_name) ==
    [p \in 1..3 |->
        Replace(model_name, " ", "-") \o <<"_", <<"shape", "location", "scale">>[p]>>]

\* predictions of predict_size_distribution_models: every group of the
\* registry gets a dict, which stays empty for a group without rows.
DistPredictions(reg, combo, model_names) ==
    [g \in DOMAIN reg |->
        LET group_data == GroupData(combo, g)
        IN  IF group_data = <<>> THEN EmptyDict
            ELSE [n \in Range(model_names) |->
                     [columns |-> MetadataCols \o DistColNames(n),
                      rows |-> [i \in DOMAIN group_data |->
                                   MetaRow(group_data[i])
                                       \o DistPredict(reg[g][Multi][n],
                                                      group_data[i].Input,
                                                      reg[g][Lognorm][<<"mean">>].values[1],
                                                      reg[g][Lognorm][<<"sd">>].values[1])]]]]

----------------------------------------------------------------------------
(* The world the program runs in: ensemble members, tracks, input files.   *)

MaxDay == 2

\* strftime("%Y%m%d") of the run dates the model uses.
DayStr(d) == <<"2015050" \o ToString(d)>>

EnsembleName == <<"SSEF">>

\* The member table: m3 is a member the table does not list.
MemberTable ==
    << [Ensemble_Member |-> <<"m1">>, group |-> <<"A">>],
       [Ensemble_Member |-> <<"m2">>, group |-> <<"B">>] >>

\* A Track_ID cell, held by its parts, and the string it is: member, run date
\* and time, first and last hour, track number.
TrackId(member, d, num) == [member |-> member, day |-> d, num |-> num]

TrackIdStr(id) ==
    id.member \o <<"_">> \o DayStr(id.day)
        \o <<"-", IF "hour" \in DOMAIN id THEN id.hour ELSE "0000",
              "_", "12", "_", "18", "_", id.num>>

TotalRowOf(member, d, num, err) ==
    [Track_ID |-> TrackId(member, d, num), Duration |-> 2,
     Ensemble_Name |-> EnsembleName, Ensemble_Member |-> member,
     Start_Time_Error |-> err,
     Translation_Error_X |-> IF err = PosInf THEN NegInf ELSE 0 - err,
     Translation_Error_Y |-> IF err = 3 THEN NaN ELSE err + 1]

StepRowOf(member, d, num, k, size, dur) ==
    [Step_ID |-> [track |-> TrackId(member, d, num), step |-> k],
     Track_ID |-> TrackId(member, d, num),
     Hail_Size |-> size, Duration |-> dur, Input |-> k,
     Scale |-> IF size \in {NaN, PosInf, NegInf} THEN size ELSE size - 4]

\* A per-track file of one run date: one track of each of m1, m2 and m3, with
\* the given errors.
TotalFileOf(mode, d, e1, e2) ==
    [mode |-> mode, kind |-> "total", date |-> d,
     rows |-> << TotalRowOf(<<"m1">>, d, "001", e1),
                 TotalRowOf(<<"m2">>, d, "001", e2),
                 TotalRowOf(<<"m3">>, d, "002", -5) >>]

\* A per-timestep file of one run date: the steps of m1's track with the
\* given sizes, one step of m2's track and one of m3's.
StepFileOf(mode, d, sizes1, size2, dur2) ==
    [mode |-> mode, kind |-> "step", date |-> d,
     rows |-> [k \in DOMAIN sizes1 |->
                   StepRowOf(<<"m1">>, d, "001", k, sizes1[k], 1)]
              \o << StepRowOf(<<"m2">>, d, "001", 1, size2, dur2),
                    StepRowOf(<<"m3">>, d, "002", 1, 3, 1) >>]

\* The files the upstream tracking writes for one run date; the forecast step
\* file repeats a reprocessed step.
TotalFile(mode, d) == TotalFileOf(mode, d, 3, PosInf)

StepFile(mode, d) ==
    LET f == StepFileOf(mode, d, <<5, NaN>>, 46, 2)
    IN  IF mode = "forecast"
        THEN [f EXCEPT !.rows = @ \o << StepRowOf(<<"m1">>, d, "001", 1, 7, 1) >>]
        ELSE f

CsvFilePool ==
    {TotalFile(mode, d) : mode \in Modes, d \in 1..MaxDay}
        \cup {StepFile(mode, d) : mode \in Modes, d \in 1..MaxDay}

\* The date ranges a TrackModeler is constructed with.
DateRanges ==
    UNION {{[start |-> a, end |-> b] : b \in {a, MaxDay}} : a \in 1..MaxDay}

\* The upstream tracking writes one more file.
UpstreamWrites(f) ==
    /\ f \notin disk.csv
    /\ disk' = [disk EXCEPT !.csv = @ \cup {f}]
    /\ call' = [op |-> "upstream", raised |-> ""]
    /\ UNCHANGED <<data, condition_models, size_models, size_distribution_models,
                   track_models, forecasts, dates>>

EmptyDisk ==
    [csv |-> {}, member |-> [m \in Modes |-> MemberTable],
     pkl |-> EmptyDict, json |-> EmptyDict, out |-> EmptyDict, dirs |-> {}]

NoTrackModels == [t \in TrackTypes |-> EmptyDict]

\* No save_models into an empty directory is the latest operation on the
\* registries.
NoSave == [clean |-> FALSE, regs |-> EmptyDict]

\* __init__ (lines 25-38) with registries and caches empty.
Constructed ==
    /\ data = [m \in Modes |-> EmptyDict]
    /\ condition_models = EmptyDict
    /\ size_models = EmptyDict
    /\ size_distribution_models = EmptyDict
    /\ track_models = NoTrackModels
    /\ forecasts = EmptyDict
    /\ call = [op |-> "__init__", raised |-> "", saved |-> NoSave]

InitLoad ==
    /\ Constructed
    /\ dates \in [Modes -> DateRanges]
    /\ disk = EmptyDisk

NextLoad ==
    \/ \E mode \in Modes : LoadData(mode)
    \/ \E f \in CsvFilePool : UpstreamWrites(f)

SpecLoad == InitLoad /\ [][NextLoad]_vars

\* C3: a load_data call for which no per-track or per-timestep file has a date
\* inside [start_date, end_date] does not raise, and leaves the four cached
\* tables of its mode present and empty.
NoMatchingFiles(mode) ==
    /\ DatedFiles(disk.csv, mode, "total", dates[mode].start, dates[mode].end) = <<>>
    /\ DatedFiles(disk.csv, mode, "step", dates[mode].start, dates[mode].end) = <<>>

C3_EmptyLoadIsNotAnError ==
    (call.op = "load_data" /\ NoMatchingFiles(call.mode))
        => /\ call.raised = ""
           /\ \A t \in {"total", "step", "combo", "total_group"} :
                 t \in DOMAIN data[call.mode] /\ data[call.mode][t] = <<>>

\* The rows of the member table that list member.
Listing(member_table, member) ==
    {i \in DOMAIN member_table : member_table[i].Ensemble_Member = member}

\* The member of the track of a step row, from the per-track table.
MemberOfStep(total, s) ==
    {t.Ensemble_Member : t \in {x \in Range(total) : x.Track_ID = s.Track_ID}}

\* C11: after a load_data that completed, every row of combo carries the
\* one group that the member table gives to the row's Ensemble_Member, and
\* a step row of a member that the member table does not list is in no row
\* of combo.
C11_JoinCorrectness ==
    (call.op = "load_data" /\ call.raised = "")
        => \A cache \in {data[call.mode]} :
              /\ \A i \in DOMAIN cache["combo"] :
                    \A row \in {cache["combo"][i]} :
                       \A listed \in {Listing(cache["member"], row.Ensemble_Member)} :
                          /\ Cardinality(listed) = 1
                          /\ \A j \in listed : row.group = cache["member"][j].group
              /\ \A k \in DOMAIN cache["step"] :
                    (\A m \in MemberOfStep(cache["total"], cache["step"][k]) :
                        Listing(cache["member"], m) = {})
                        => \A i \in DOMAIN cache["combo"] :
                              cache["combo"][i].Step_ID # cache["step"][k].Step_ID

\* A load whose combo has rows of two groups and leaves out the step of the
\* unlisted member m3.
C11_Witness ==
    /\ call.op = "load_data" /\ call.raised = ""
    /\ \E i, j \in DOMAIN data[call.mode]["combo"] :
          data[call.mode]["combo"][i].group # data[call.mode]["combo"][j].group
    /\ \E k \in DOMAIN data[call.mode]["step"] :
          /\ data[call.mode]["step"][k].Track_ID.member = <<"m3">>
          /\ \A i \in DOMAIN data[call.mode]["combo"] :
                data[call.mode]["combo"][i].Step_ID # data[call.mode]["step"][k].Step_ID

\* The views of a cache are the joins of the tables the cache holds.
ViewsAreJoins(cache) ==
    /\ {"total", "step", "member", "combo", "total_group"} \subseteq DOMAIN cache
    /\ cache["combo"] =
           InnerJoin(InnerJoin(cache["step"], cache["total"], TrackKey, StepTotalRow),
                     cache["member"], MemberKey, ComboMemberRow)
    /\ cache["total_group"] =
           InnerJoin(cache["total"], cache["member"], MemberKey, TotalMemberRow)

\* C18: after any sequence of load_data calls, completed or failed part-way,
\* the cache of every mode is empty or holds combo and total_group that are
\* the joins of the step, total and member tables of that same cache.
C18_CacheSelfConsistent ==
    \A mode \in Modes : data[mode] = EmptyDict \/ ViewsAreJoins(data[mode])

----------------------------------------------------------------------------
(* The discretized families: fit_size_models, fit_track_models and their   *)
(* predictions, on data that load_data has loaded.                         *)

\* Hail sizes (in halves: 0.5, 2.5, 4.0 and the 23 of the specification's
\* scenario) and track errors of the training files.
TrainSizes == {1, 8}

RF == <<"rf">>
GBT == <<"gb", " ", "tree">>

\* model_names of a call.
NameLists == {<<RF>>, <<RF, GBT>>}

\* (output_start, output_step, output_stop) of fit_size_models: every range of
\* the bounds, inverted ones too, and the scenario's.
SizeRanges ==
    {<<a, s, b>> : a \in 1..MaxStart, s \in 1..2, b \in 0..MaxStop}
        \cup {<<5, 5, 20>>}

\* output_ranges[model_type] = (floor, ceiling, step) of fit_track_models.
TrackRanges == {<<-1, 1, 1>>, <<-2, 1, 2>>, <<0, MaxStop, 2>>, <<1, 0, 1>>}

\* Orders in which self.track_models.iteritems() yields the model types.
TypeOrders ==
    { << <<"translation", "-", "x">>, <<"translation", "-", "y">>,
         <<"start", "-", "time">> >>,
      << <<"start", "-", "time">>, <<"translation", "-", "y">>,
         <<"translation", "-", "x">> >> }

\* The state after __init__ and load_data of both modes on the files csv of
\* one run date (the files themselves are not kept: nothing reads them again).
LoadedFrom(csv) ==
    /\ dates = [m \in Modes |-> [start |-> 1, end |-> 1]]
    /\ disk = EmptyDisk
    /\ data = [m \in Modes |->
                  LoadDataResult(EmptyDict, csv, MemberTable, m, 1, 1).cache]
    /\ condition_models = EmptyDict
    /\ size_models = EmptyDict
    /\ size_distribution_models = EmptyDict
    /\ track_models = NoTrackModels
    /\ forecasts = EmptyDict
    /\ call = [op |-> "load_data", mode |-> "forecast", raised |-> ""]

\* The training files hold m1's steps of sizes 0.5, 2.5 and 23 and one step
\* of m2, which may be too small or too long to train on.
InitCodec ==
    \E s2 \in TrainSizes, d2 \in 1..2 :
        LoadedFrom({TotalFileOf("train", 1, -3, 7),
                    StepFileOf("train", 1, <<1, 5, 46>>, s2, d2),
                    TotalFile("forecast", 1), StepFile("forecast", 1)})

\* The two discretized registries are separate attributes and no operation
\* reads both: a run works on one of them.
NextCodec ==
    \/ /\ track_models = NoTrackModels
       /\ \E names \in NameLists, r \in SizeRanges :
             FitSizeModels(names, r[1], r[2], r[3], NoFailure)
    \/ /\ size_models = EmptyDict
       /\ \E names \in NameLists, r \in TrackRanges, o \in TypeOrders :
             FitTrackModels(names, [t \in TrackTypes |-> r], o, NoFailure)
    \/ \E names \in NameLists : PredictSizeModels(names)
    \/ \E names \in NameLists : PredictTrackModels(names)

SpecCodec == InitCodec /\ [][NextCodec]_vars

FitOps == {"fit_size_models", "fit_track_models"}

\* A declared range the labels can lie in.
WellFormed(h) == h.step > 0 /\ h.floor <= h.ceiling

\* The greatest floor + k * step that is not above the ceiling.
TopBucket(h) == h.ceiling - ((h.ceiling - h.floor) % h.step)

InBuckets(h, c) ==
    /\ h.floor <= c
    /\ c <= h.ceiling
    /\ (c - h.floor) % h.step = 0

\* C8 as stated: every label handed to a classifier by fit_size_models or
\* fit_track_models lies in [floor, ceiling] on a multiple of step from the
\* floor, whatever the range is.
C8_LabelsInRange ==
    call.op \in FitOps
        => \A h \in call.handed : \A i \in DOMAIN h.y : InBuckets(h, h.y[i])

\* C8: for a range with step > 0 and floor <= ceiling, every label c that
\* fit_size_models or fit_track_models hands to a classifier satisfies
\* floor <= c <= ceiling and (c - floor) % step = 0; a value above the ceiling
\* gets the label of the ceiling's bucket (clipped, then bucketed), a value
\* below the floor gets the floor in fit_track_models, and a value inside the
\* range gets the bucket it lies in.
C8_ClipThenBucket ==
    call.op \in FitOps
        => \A h \in call.handed :
              WellFormed(h)
                  => /\ Len(h.y) = Len(h.output_data)
                     /\ \A i \in DOMAIN h.y :
                           LET v == h.output_data[i]
                               c == h.y[i]
                           IN  /\ InBuckets(h, c)
                               /\ v > h.ceiling => c = TopBucket(h)
                               /\ (call.op = "fit_track_models" /\ v < h.floor)
                                      => c = h.floor
                               /\ (h.floor <= v /\ v <= h.ceiling)
                                      => (c <= v /\ v < c + h.step)

\* The scenario floor = 5, step = 5, ceiling = 20: the hail size 23 got the
\* label 20.
C8_Witness ==
    /\ call.op = "fit_size_models"
    /\ \E h \in call.handed :
          /\ h.floor = 5 /\ h.step = 5 /\ h.ceiling = 20
          /\ \E i \in DOMAIN h.y : h.output_data[i] = 23 /\ h.y[i] = 20

\* C9: for every floor, step > 0 and ceiling >= floor, the grid stored under
\* "outputvalues" by fit_size_models and fit_track_models starts at the floor,
\* its consecutive elements differ by exactly step, and no element is
\* greater than the ceiling.
C9_GridWithinCeiling ==
    call.op \in FitOps
        => \A h \in call.handed :
              WellFormed(h)
                  => LET grid == h.entry[OutputValues].values
                     IN  /\ grid # <<>>
                         /\ grid[1] = h.floor
                         /\ \A i \in 1..(Len(grid) - 1) : grid[i + 1] - grid[i] = h.step
                         /\ \A i \in DOMAIN grid : grid[i] <= h.ceiling

\* The fitted handles of a registry entry.
FittedIn(entry) ==
    {entry[n] : n \in {k \in DOMAIN entry : entry[k].kind = "model" /\ entry[k].fitted}}

ClassesInGrid(entry) ==
    \A m \in FittedIn(entry) :
        /\ Range(Classes(m)) \subseteq Range(entry[OutputValues].values)
        /\ ~LookupFails(Classes(m), entry[OutputValues].values)

\* C10 as stated: whatever floor, step and ceiling the models were fitted
\* with, every class of every fitted model is in the grid of its entry, and
\* the lookup of predict_size_models and predict_track_models never fails.
C10_LookupNeverFails ==
    /\ \A g \in DOMAIN size_models : ClassesInGrid(size_models[g])
    /\ \A t \in DOMAIN track_models :
          \A g \in DOMAIN track_models[t] : ClassesInGrid(track_models[t][g])
    /\ call.op \in {"predict_size_models", "predict_track_models"}
          => call.raised # "IndexError"

\* C10: for every integer floor, step > 0 and ceiling >= floor and every
\* training value, every class of a model fitted by fit_size_models or
\* fit_track_models is a member of the output grid stored for the same group
\* (and model type), so the exact-match lookup of the predictions finds an
\* index for every class.
C10_ClassesInGrid ==
    call.op \in FitOps
        => \A h \in call.handed : WellFormed(h) => ClassesInGrid(h.entry)

\* A fitted model whose training values were clipped to the ceiling and
\* bucketed, next to one that was fitted on values of the lowest bucket.
C10_Witness ==
    /\ call.op \in FitOps
    /\ \E h \in call.handed :
          /\ WellFormed(h)
          /\ FittedIn(h.entry) # {}
          /\ \E i \in DOMAIN h.y : h.output_data[i] > h.ceiling
          /\ \E i \in DOMAIN h.y : h.y[i] = h.floor

\* The tables a prediction returned together with the raw class
\* probabilities of their rows: <<table, proba, grid>> per family (and model
\* type), group and model.
Reconstructed ==
    IF call.op = "predict_size_models"
    THEN UNION {{<<forecasts["size"][g][n], call.proba["size"][g][n],
                   size_models[g][OutputValues].values>>
                    : n \in DOMAIN forecasts["size"][g]}
                   : g \in DOMAIN forecasts["size"]}
    ELSE UNION {UNION {{<<forecasts["track"][t][g][n], call.proba[t][g][n],
                          track_models[t][g][OutputValues].values>>
                           : n \in DOMAIN forecasts["track"][t][g]}
                          : g \in DOMAIN forecasts["track"][t]}
                   : t \in DOMAIN forecasts["track"]}

\* The dense vector of row i of a table: the cells after the metadata.
Pdf(table, i) ==
    SubSeq(table.rows[i], Len(MetadataCols) + 1, Len(table.rows[i]))

\* C7: in the tables predict_size_models and predict_track_models return, for
\* every predicted row, the dense vector has one cell per bucket of the grid,
\* its sum equals the sum of the classifier's raw class probabilities of the
\* row, each class probability is at the index whose grid value equals the
\* class, and a bucket with no corresponding class holds zero.
C7_PdfReconstruction ==
    (call.op \in {"predict_size_models", "predict_track_models"} /\ call.raised = "")
        => \A x \in Reconstructed :
              LET table == x[1]
                  grid == x[3]
              IN  /\ Len(table.rows) = Len(x[2])
                  /\ \A i \in DOMAIN table.rows :
                        LET vals == x[2][i].vals
                            classes == x[2][i].classes
                            pdf == Pdf(table, i)
                        IN  /\ Len(pdf) = Len(grid)
                            /\ SumSeq(pdf) = SumSeq(vals)
                            /\ \A k \in DOMAIN classes :
                                  \E idx \in DOMAIN grid :
                                      grid[idx] = classes[k] /\ pdf[idx] = vals[k]
                            /\ \A idx \in DOMAIN grid :
                                  grid[idx] \notin Range(classes) => pdf[idx] = 0

\* A predicted row whose classifier knows two classes with a bucket that is
\* no class between them, and gives the upper one a probability.
C7_Witness ==
    /\ call.op \in {"predict_size_models", "predict_track_models"}
    /\ call.raised = ""
    /\ \E x \in Reconstructed : \E i \in DOMAIN x[1].rows :
          LET classes == x[2][i].classes
              vals == x[2][i].vals
          IN  /\ Len(classes) = 2
              /\ vals[2] > 0
              /\ \E idx \in DOMAIN x[3] :
                    classes[1] < x[3][idx] /\ x[3][idx] < classes[2]

----------------------------------------------------------------------------
(* The model registry under the four fit operations, with fits that fail.  *)

\* The model object whose fit raises, if one does: the m-th object of the
\* call, when the loop is at the group (and model type).
Failures ==
    {NoFailure, [group |-> <<"B">>, type |-> <<"translation", "-", "y">>, m |-> 2]}

InitRegistry ==
    LoadedFrom({TotalFileOf("train", 1, -3, 7),
                StepFileOf("train", 1, <<1, 5, 46>>, 8, 1),
                TotalFile("forecast", 1), StepFile("forecast", 1)})

NextRegistry ==
    \/ \E names \in NameLists, fail \in Failures :
          FitConditionModels(names, 0, fail)
    \/ \E names \in NameLists, fail \in Failures :
          FitSizeModels(names, 1, 1, MaxStop, fail)
    \/ \E names \in NameLists, fail \in Failures :
          FitSizeDistributionModels(names, fail)
    \/ \E names \in NameLists, fail \in Failures, o \in TypeOrders :
          FitTrackModels(names, [t \in TrackTypes |-> <<-1, 1, 1>>], o, fail)

SpecRegistry == InitRegistry /\ [][NextRegistry]_vars

\* The entries of the four families: <<entry, the dict of the entry that
\* holds the model handles>> per group (and model type).
RegistryEntries ==
    {<<condition_models[g], condition_models[g]>> : g \in DOMAIN condition_models}
    \cup {<<size_models[g], size_models[g]>> : g \in DOMAIN size_models}
    \cup {<<size_distribution_models[g],
            IF Multi \in DOMAIN size_distribution_models[g]
            THEN size_distribution_models[g][Multi] ELSE EmptyDict>>
             : g \in DOMAIN size_distribution_models}
    \cup UNION {{<<track_models[t][g], track_models[t][g]>> : g \in DOMAIN track_models[t]}
                   : t \in DOMAIN track_models}

Handles(models) == {models[n] : n \in {k \in DOMAIN models : models[k].kind = "model"}}

\* C4: in every reachable state of the registry, fits that fail included, a
\* group that is present in a family's registry holds at least one model
\* handle, every handle it holds is fitted, and after a fit operation the
\* groups of the family hold a handle for every requested model name.
C4_NoPartialEntries ==
    /\ \A e \in RegistryEntries :
          /\ Handles(e[2]) # {}
          /\ \A h \in Handles(e[2]) : h.fitted
    /\ call.op = "fit_condition_models"
          => \A g \in DOMAIN condition_models :
                Range(call.model_names) \subseteq DOMAIN condition_models[g]

----------------------------------------------------------------------------
(* Persistence: save_models and load_models on the files of model_path.    *)
(* disk.pkl maps the name of a pickle file to what was dumped into it.     *)

\* The four registries of the object.
Regs ==
    [condition |-> condition_models, size |-> size_models,
     sizedist |-> size_distribution_models, track |-> track_models]

\* The keys of a registry of depth 2 and of depth 3, and the objects at them.
Keys2(reg) == UNION {{<<a, b>> : b \in DOMAIN reg[a]} : a \in DOMAIN reg}

Keys3(reg) ==
    UNION {UNION {{<<a, b, c>> : c \in DOMAIN reg[a][b]} : b \in DOMAIN reg[a]}
              : a \in DOMAIN reg}

At2(reg, k) == reg[k[1]][k[2]]
At3(reg, k) == reg[k[1]][k[2]][k[3]]

\* cPickle.dump and cPickle.load.
Pickle(obj) == [pickled |-> obj]
Unpickle(file) == file.pickled

\* "{0}_{1}_condition.pkl".format(group, model_name.replace(" ", "-")) and
\* the like (lines 398-399, 407-408): ".pkl" is one atom.
FileName2(group, model_name, family) ==
    group \o <<"_">> \o Replace(model_name, " ", "-") \o <<"_", family, ".pkl">>

\* "{0}_{1}_{2}_sizedist.pkl".format(group, model_name.replace(" ", "-"),
\* model_type) and the like (lines 417-419, 428-430).
FileName3(group, model_name, model_type, family) ==
    group \o <<"_">> \o Replace(model_name, " ", "-") \o <<"_">> \o model_type
        \o <<"_", family, ".pkl">>

\* The writes of save_models (lines 396-435): <<file name, object, model
\* name>>.
SavedFiles(regs) ==
    {<<FileName2(k[1], k[2], "condition"), At2(regs.condition, k), k[2]>>
        : k \in Keys2(regs.condition)}
    \cup {<<FileName2(k[1], k[2], "size"), At2(regs.size, k), k[2]>>
             : k \in Keys2(regs.size)}
    \cup {<<FileName3(k[1], k[3], k[2], "sizedist"), At3(regs.sizedist, k), k[3]>>
             : k \in Keys3(regs.sizedist)}
    \cup {<<FileName3(k[2], k[3], k[1], "track"), At3(regs.track, k), k[3]>>
             : k \in Keys3(regs.track)}

\* The model names that share a file name with another model name.
Colliding(files) ==
    {w[3] : w \in {v \in files : \E u \in files : u[1] = v[1] /\ u[3] # v[3]}}

\* The orders in which a dict can yield the names S.
NameOrders(S) == {o \in [1..Cardinality(S) -> S] : Range(o) = S}

\* What a file holds after the writes to it: the object written last.
LastWritten(files, f, order) ==
    LET cands == {w \in files : w[1] = f}
        rank(n) == CHOOSE i \in DOMAIN order : order[i] = n
        last == IF Cardinality(cands) = 1 THEN CHOOSE w \in cands : TRUE
                ELSE CHOOSE w \in cands : \A v \in cands : rank(v[3]) <= rank(w[3])
    IN  last[2]

\* save_models (lines 396-437).  Two model names of a dict that give the
\* same file name are written to the same file, in the order the dict yields
\* them; the dicts of the registries, filled with the same names in the same
\* order, yield them in one order.
SaveModels ==
    /\ \E files \in {SavedFiles(Regs)} :
       \E order \in NameOrders(Colliding(files)) :
           disk' = [disk EXCEPT !.pkl =
                       [f \in (DOMAIN disk.pkl) \cup {w[1] : w \in files} |->
                           IF f \in {w[1] : w \in files}
                           THEN Pickle(LastWritten(files, f, order))
                           ELSE disk.pkl[f]]]
    /\ call' = [op |-> "save_models", raised |-> "",
                saved |-> [clean |-> disk.pkl = EmptyDict, regs |-> Regs]]
    /\ UNCHANGED <<data, condition_models, size_models, size_distribution_models,
                   track_models, forecasts, dates>>

\* glob(model_path + "*_condition.pkl") and the like.
Glob(pkl, family) ==
    {f \in DOMAIN pkl :
        Len(f) >= 3 /\ SubSeq(f, Len(f) - 2, Len(f)) = <<"_", family, ".pkl">>}

\* file.split("/")[-1][:-4].split("_")
ModelComps(file) == Split(DropLast(FromEnd(Split(file, "/"), 1), 1), "_")

\* A faulty variant of LoadedName that keeps the hyphens of the file name.
LoadedNameAsSaved(model_comps) == model_comps[2]

\* model_comps[1].replace("-", " ")
LoadedName(model_comps) == Replace(model_comps[2], "-", " ")

\* The registry key a file is loaded under (lines 450-453, 460-463, 470-476,
\* 482-488).  A file that save_models wrote has the components it reads.
FileKey(file, family) ==
    LET model_comps == ModelComps(file)
    IN  CASE family \in {"condition", "size"} ->
                <<model_comps[1], LoadedName(model_comps)>>
          [] family = "sizedist" ->
                <<model_comps[1], model_comps[3], LoadedName(model_comps)>>
          [] family = "track" ->
                <<model_comps[3], model_comps[1], LoadedName(model_comps)>>

FileKeys(pkl, family) == {FileKey(f, family) : f \in Glob(pkl, family)}

\* The atoms of the file names in the order of str, and the order of the
\* names it gives (no atom of two names of a family begins another).
AtomOrder ==
    <<" ", "-", ".pkl", "/", "1", "A", "B", "_", "condition", "gb", "lognorm", "mean",
      "multi", "outputvalues", "rf", "sd", "size", "sizedist", "start", "time",
      "track", "translation", "tree", "v2", "x", "y">>

AtomRank(a) == CHOOSE i \in DOMAIN AtomOrder : AtomOrder[i] = a

StrLess(a, b) ==
    \E i \in 1..(Len(a) + 1) :
        /\ i <= Len(b)
        /\ \A j \in 1..(i - 1) : a[j] = b[j]
        /\ i > Len(a) \/ AtomRank(a[i]) < AtomRank(b[i])

\* What the loop over the sorted files of a family leaves at each key: the
\* object of the last of the files with that key.
Loaded(pkl, family) ==
    LET keyed == {<<FileKey(f, family), f>> : f \in Glob(pkl, family)}
        last(k) == CHOOSE x \in keyed :
                       /\ x[1] = k
                       /\ \A y \in keyed : (y[1] = k /\ y # x) => StrLess(y[2], x[2])
    IN  [k \in {x[1] : x \in keyed} |-> Unpickle(pkl[last(k)[2]])]

\* A faulty variant of Merge2 that starts from an empty registry.
Replaced2(reg, objs) ==
    [a \in {k[1] : k \in DOMAIN objs} |->
        [b \in {k[2] : k \in {j \in DOMAIN objs : j[1] = a}} |-> objs[<<a, b>>]]]

\* Lines 451-455 and 461-465: the entry of the group is created when it is
\* missing, and the object stored under the model name.
Merge2(reg, objs) ==
    [a \in (DOMAIN reg) \cup {k[1] : k \in DOMAIN objs} |->
        [b \in (IF a \in DOMAIN reg THEN DOMAIN reg[a] ELSE {})
                   \cup {k[2] : k \in {j \in DOMAIN objs : j[1] = a}} |->
            IF <<a, b>> \in DOMAIN objs THEN objs[<<a, b>>] ELSE reg[a][b]]]

\* Lines 471-477 and 483-490: the same with one more level.
Merge3(reg, objs) ==
    [a \in (DOMAIN reg) \cup {k[1] : k \in DOMAIN objs} |->
        Merge2(IF a \in DOMAIN reg THEN reg[a] ELSE EmptyDict,
               [k \in {<<j[2], j[3]>> : j \in {i \in DOMAIN objs : i[1] = a}} |->
                   objs[<<a, k[1], k[2]>>]])]

\* load_models (lines 446-490).
LoadModels ==
    /\ condition_models' = Merge2(condition_models, Loaded(disk.pkl, "condition"))
    /\ size_models' = Merge2(size_models, Loaded(disk.pkl, "size"))
    /\ size_distribution_models' =
           Merge3(size_distribution_models, Loaded(disk.pkl, "sizedist"))
    /\ track_models' = Merge3(track_models, Loaded(disk.pkl, "track"))
    /\ call' = [op |-> "load_models", raised |-> "", before |-> Regs,
                saved |-> IF call.op = "__init__" THEN call.saved ELSE NoSave]
    /\ UNCHANGED <<data, forecasts, dates, disk>>

\* __init__ (lines 25-38): a TrackModeler is constructed anew; the files stay.
Construct ==
    /\ data' = [m \in Modes |-> EmptyDict]
    /\ condition_models' = EmptyDict
    /\ size_models' = EmptyDict
    /\ size_distribution_models' = EmptyDict
    /\ track_models' = NoTrackModels
    /\ call' = [op |-> "__init__", raised |-> "",
                saved |-> IF call.op = "save_models" THEN call.saved ELSE NoSave]
    /\ UNCHANGED <<forecasts, dates, disk>>

Families == {"condition", "size", "sizedist", "track"}

\* Model names with a hyphen and with an underscore of their own.
GbHyphenTree == <<"gb", "-", "tree">>
RfV2 == <<"rf", "_", "v2">>

PersistNameLists == {<<RF>>, <<RF, GBT>>, <<GBT, GbHyphenTree>>, <<RfV2>>}

\* Member files: the second gives m1 a group with an underscore in its name.
PersistMembers ==
    {MemberTable,
     << [Ensemble_Member |-> <<"m1">>, group |-> <<"A", "_", "1">>],
        [Ensemble_Member |-> <<"m2">>, group |-> <<"B">>] >>}

\* The registries after a training run: load_data("train") on the files csv
\* with the member file member, then the fit_* of the families fams.
TrainedRegs(csv, member, names, fams) ==
    LET train == LoadDataResult(EmptyDict, csv, member, "train", 1, 1).cache
        order == CHOOSE o \in TypeOrders : TRUE
    IN  [condition |-> IF "condition" \in fams
                       THEN ConditionFit(train, EmptyDict, names, 0, NoFailure).reg
                       ELSE EmptyDict,
         size |-> IF "size" \in fams
                  THEN SizeFit(train, EmptyDict, names, 1, 1, 2, NoFailure).fit.reg
                  ELSE EmptyDict,
         sizedist |-> IF "sizedist" \in fams
                      THEN SizeDistributionFit(train, EmptyDict, names, NoFailure).reg
                      ELSE EmptyDict,
         track |-> IF "track" \in fams
                   THEN TrackFit(train, NoTrackModels, names,
                                 [t \in TrackTypes |-> <<-1, 1, 1>>], order,
                                 NoFailure).fit.reg
                   ELSE NoTrackModels]

\* The directory as an earlier training run left it: empty, or with the
\* condition and track models of a run on other training files.
EarlierRuns ==
    {{}, SavedFiles(TrainedRegs({TotalFileOf("train", 1, 2, 0),
                                 StepFileOf("train", 1, <<3, 9>>, 8, 1)},
                                MemberTable, <<RF, GBT>>, {"condition", "track"}))}

InitPersist ==
    \E member \in PersistMembers, names \in PersistNameLists,
       fams \in SUBSET Families, earlier \in EarlierRuns :
        LET csv == {TotalFileOf("train", 1, -3, 7),
                    StepFileOf("train", 1, <<1, 5, 46>>, 8, 1)}
            regs == TrainedRegs(csv, member, names, fams)
        IN  /\ dates = [m \in Modes |-> [start |-> 1, end |-> 1]]
            /\ disk = [EmptyDisk EXCEPT
                          !.member = [m \in Modes |-> member],
                          !.pkl = [f \in {w[1] : w \in earlier} |->
                                      Pickle(CHOOSE o \in {w[2] : w \in {v \in earlier : v[1] = f}}
                                                 : TRUE)]]
            /\ data = [m \in Modes |->
                          IF m = "train"
                          THEN LoadDataResult(EmptyDict, csv, member, m, 1, 1).cache
                          ELSE EmptyDict]
            /\ condition_models = regs.condition
            /\ size_models = regs.size
            /\ size_distribution_models = regs.sizedist
            /\ track_models = regs.track
            /\ forecasts = EmptyDict
            /\ call = [op |-> "fit", raised |-> "", saved |-> NoSave]

NextPersist ==
    \/ SaveModels
    \/ LoadModels
    \/ Construct

SpecPersist == InitPersist /\ [][NextPersist]_vars

\* Two registries hold the same keys and the same object at every key.
Same2(a, b) == Keys2(a) = Keys2(b) /\ \A k \in Keys2(a) : At2(a, k) = At2(b, k)
Same3(a, b) == Keys3(a) = Keys3(b) /\ \A k \in Keys3(a) : At3(a, k) = At3(b, k)

SameContents(a, b) ==
    /\ Same2(a.condition, b.condition)
    /\ Same2(a.size, b.size)
    /\ Same3(a.sizedist, b.sizedist)
    /\ Same3(a.track, b.track)

\* load_models has just loaded, into a freshly constructed TrackModeler, what
\* save_models wrote into an empty directory.
RoundTrip == call.op = "load_models" /\ call.saved.clean

\* C5 as stated: for any registry contents, the registries after the round
\* trip hold the keys of the saved registries and the saved object at each.
C5_RoundTripAnyContents == RoundTrip => SameContents(Regs, call.saved.regs)

Has(str, atom) == \E i \in DOMAIN str : str[i] = atom

\* No group name, model type or model name has an underscore, and no model
\* name has a hyphen.
PlainNames(regs) ==
    /\ \A k \in Keys2(regs.condition) \cup Keys2(regs.size) :
          ~Has(k[1], "_") /\ ~Has(k[2], "_") /\ ~Has(k[2], "-")
    /\ \A k \in Keys3(regs.sizedist) \cup Keys3(regs.track) :
          ~Has(k[1], "_") /\ ~Has(k[2], "_") /\ ~Has(k[3], "_") /\ ~Has(k[3], "-")

\* C5: for registry contents whose group names, model types and model names
\* hold no underscore and whose model names hold no hyphen, save_models into
\* an empty directory followed by load_models into a freshly constructed
\* TrackModeler yields, in each of the four families, the keys of the saved
\* registry, each mapped to the object that was saved under it.
C5_RoundTrip ==
    (RoundTrip /\ PlainNames(call.saved.regs)) => SameContents(Regs, call.saved.regs)

\* A round trip of four families with a model name that has a space.
C5_Witness ==
    /\ RoundTrip
    /\ PlainNames(call.saved.regs)
    /\ \E k \in Keys2(condition_models) : Has(k[2], " ")
    /\ Keys2(size_models) # {}
    /\ Keys3(size_distribution_models) # {}
    /\ Keys3(track_models) # {}

\* The files of a family: <<the key a file is loaded under, its object>>.
KeyedFiles(family) ==
    {<<FileKey(f, family), Unpickle(disk.pkl[f])>> : f \in Glob(disk.pkl, family)}

Merged2(before, after, keyed) ==
    /\ DOMAIN before \subseteq DOMAIN after
    /\ \A k \in Keys2(before) \ {x[1] : x \in keyed} :
          k \in Keys2(after) /\ At2(after, k) = At2(before, k)
    /\ \A k \in Keys2(after) :
          IF k \in {x[1] : x \in keyed} THEN <<k, At2(after, k)>> \in keyed
          ELSE k \in Keys2(before)

Merged3(before, after, keyed) ==
    /\ DOMAIN before \subseteq DOMAIN after
    /\ \A a \in DOMAIN before : DOMAIN before[a] \subseteq DOMAIN after[a]
    /\ \A k \in Keys3(before) \ {x[1] : x \in keyed} :
          k \in Keys3(after) /\ At3(after, k) = At3(before, k)
    /\ \A k \in Keys3(after) :
          IF k \in {x[1] : x \in keyed} THEN <<k, At3(after, k)>> \in keyed
          ELSE k \in Keys3(before)

\* C6: after load_models, every entry that was in a registry before the call
\* and whose key is the key of no file of the directory is present and
\* unchanged, every other entry of the registry holds the object of a file
\* with its key, and no group or model type of before the call is gone.
C6_LoadMerges ==
    call.op = "load_models"
        => /\ \A keyed \in {KeyedFiles("condition")} :
                 Merged2(call.before.condition, condition_models, keyed)
           /\ \A keyed \in {KeyedFiles("size")} :
                 Merged2(call.before.size, size_models, keyed)
           /\ \A keyed \in {KeyedFiles("sizedist")} :
                 Merged3(call.before.sizedist, size_distribution_models, keyed)
           /\ \A keyed \in {KeyedFiles("track")} :
                 Merged3(call.before.track, track_models, keyed)

\* A load that kept an entry no file has, replaced the object of one and
\* added one.
C6_Witness ==
    /\ call.op = "load_models"
    /\ \E k \in Keys2(call.before.condition) : k \notin FileKeys(disk.pkl, "condition")
    /\ \E k \in Keys2(call.before.condition) :
          /\ k \in FileKeys(disk.pkl, "condition")
          /\ At2(condition_models, k) # At2(call.before.condition, k)
    /\ \E k \in Keys2(condition_models) : k \notin Keys2(call.before.condition)

----------------------------------------------------------------------------
(* Export: output_forecasts_json and the unit of its parallel variant,     *)
(* output_forecast.  disk.json maps a path under json_data_path to the     *)
(* track object of the file, disk.out a path under out_path to the object  *)
(* written; disk.dirs holds the directories under out_path.                *)

\* "{0}_{1}_{2}_model_track_{3}.json".format(ensemble_name, run_date, member,
\* track_num)
JsonFileName(ensemble_name, run_date, member, track_num) ==
    ensemble_name \o <<"_">> \o run_date \o <<"_">> \o member
        \o <<"_", "model", "_", "track", "_">> \o track_num \o <<".json">>

\* "/".join([run_date, member]) + "/" + json_file_name
FullJsonPath(ensemble_name, run_date, member, track_num) ==
    Join(<<run_date, member>>, "/") \o <<"/">>
        \o JsonFileName(ensemble_name, run_date, member, track_num)

\* track_id.split("_")[-1]
TrackNum(track_id) == FromEnd(Split(track_id, "_"), 1)

\* track_id.split("_")[-4][:8]: the date is one atom of eight characters.
RunDate(track_id) == SubSeq(FromEnd(Split(track_id, "_"), 4), 1, 1)

\* The path of the feature file of a row of the per-track table.
RowPath(row) ==
    FullJsonPath(row.Ensemble_Name, RunDate(TrackIdStr(row.Track_ID)),
                 row.Ensemble_Member, TrackNum(TrackIdStr(row.Track_ID)))

ColIndex(columns, c) == MinOf({i \in DOMAIN columns : columns[i] = c})

\* table.loc[table["Track_ID"] == track_id]
TrackRows(table, track_id) ==
    SelectSeq(table.rows, LAMBDA row : row[ColIndex(table.columns, TrackIdCol)] = track_id)

\* The model names of a call: condition, size, dist and track.
NoNames == [condition |-> <<>>, size |-> <<>>, dist |-> <<>>, track |-> <<>>]

\* Lines 521-535 and 589-603 raise KeyError when a family, the group or a
\* model is no key of forecasts.
StepForecastsError(fc, group, names) ==
    IF \/ \E f \in {"condition", "size", "dist"} : names[f] # <<>> /\ f \notin DOMAIN fc
       \/ "track" \notin DOMAIN fc
    THEN "KeyError"
    ELSE IF \/ /\ names.condition # <<>>
               /\ \/ group \notin DOMAIN fc["condition"]
                  \/ \E m \in DOMAIN names.condition :
                        names.condition[m] \notin Range(fc["condition"][group].columns)
            \/ \E f \in {"size", "dist"} :
                  /\ names[f] # <<>>
                  /\ \/ group \notin DOMAIN fc[f]
                     \/ \E m \in DOMAIN names[f] : names[f][m] \notin DOMAIN fc[f][group]
            \/ /\ names.track # <<>>
               /\ \E t \in DOMAIN fc["track"] :
                     \/ group \notin DOMAIN fc["track"][t]
                     \/ \E m \in DOMAIN names.track :
                           names.track[m] \notin DOMAIN fc["track"][t][group]
         THEN "KeyError"
    ELSE ""

\* step_forecasts (lines 520-535 and 588-603) as <<key, fdata>>: the column
\* of the model for a condition model, a Series, and the rows of the model's
\* table for the others.
StepForecastItems(fc, group, track_id, names) ==
    {<<<<"condition", "_">> \o Replace(n, " ", "-"),
       LET table == fc["condition"][group]
           rows == TrackRows(table, track_id)
       IN  [columns |-> <<>>,
            values |-> [i \in DOMAIN rows |-> rows[i][ColIndex(table.columns, n)]]]>>
        : n \in Range(names.condition)}
    \cup UNION {{<<<<IF f = "size" THEN "size" ELSE "dist", "_">> \o Replace(n, " ", "-"),
                   [columns |-> fc[f][group][n].columns,
                    values |-> TrackRows(fc[f][group][n], track_id)]>>
                    : n \in Range(names[f])} : f \in {"size", "dist"}}
    \cup UNION {{<<t \o <<"_">> \o Replace(n, " ", "-"),
                   [columns |-> fc["track"][t][group][n].columns,
                    values |-> TrackRows(fc["track"][t][group][n], track_id)]>>
                    : n \in Range(names.track)} : t \in DOMAIN fc["track"]}

StepForecasts(fc, group, track_id, names) ==
    LET items == StepForecastItems(fc, group, track_id, names)
    IN  [k \in {x[1] : x \in items} |-> (CHOOSE x \in items : x[1] = k)[2]]

Attributes == <<"attributes">>

\* A faulty variant of FeatureValue that gives every feature the values of
\* the first row.
FeatureValueOfFirstRow(model_name, fdata, f) ==
    LET ml_model_name == Split(model_name, "_")[2]
        predcols == SelectSeq([i \in DOMAIN fdata.columns |-> i],
                              LAMBDA i : Contains(fdata.columns[i], ml_model_name))
    IN  IF Contains(model_name, <<"condition">>) THEN fdata.values[1]
        ELSE [j \in DOMAIN predcols |-> fdata.values[1][predcols[j]]]

\* Lines 549-557 and 627-635: what feature f gets under the key model_name.
FeatureValue(model_name, fdata, f) ==
    LET ml_model_name == Split(model_name, "_")[2]
        predcols == SelectSeq([i \in DOMAIN fdata.columns |-> i],
                              LAMBDA i : Contains(fdata.columns[i], ml_model_name))
    IN  IF Contains(model_name, <<"condition">>) THEN fdata.values[f]
        ELSE [j \in DOMAIN predcols |-> fdata.values[f][predcols[j]]]

\* The loop over the features (lines 546-557 and 624-635): KeyError for a
\* feature without attributes, IndexError for a feature beyond the rows.
InjectError(track_obj, step_forecasts) ==
    LET bad == {f \in DOMAIN track_obj.features :
                   \/ Attributes \notin DOMAIN track_obj.features[f].properties
                   \/ \E k \in DOMAIN step_forecasts : f > Len(step_forecasts[k].values)}
    IN  IF bad = {} THEN ""
        ELSE IF Attributes \notin DOMAIN track_obj.features[MinOf(bad)].properties
             THEN "KeyError"
        ELSE "IndexError"

Inject(track_obj, step_forecasts) ==
    [track_obj EXCEPT !.features =
        [f \in DOMAIN @ |->
            [@[f] EXCEPT !.properties =
                [k \in ((DOMAIN @) \ {Attributes}) \cup DOMAIN step_forecasts |->
                    IF k \in DOMAIN step_forecasts
                    THEN FeatureValue(k, step_forecasts[k], f)
                    ELSE @[k]]]]]

\* Lines 558-565 and 636-643: the directories of a track under out_path.
TrackDirs(row) ==
    LET run_date == RunDate(TrackIdStr(row.Track_ID))
    IN  {run_date, Join(<<run_date, row.Ensemble_Member>>, "/")}

\* What the body of the loop of output_forecasts_json (lines 513-568) does
\* for the row of a track: what it raises, "" for nothing, and the object it
\* writes.  The group of a member that the member file does not list is
\* values[0] of an empty array; open() of a feature file that does not exist
\* raises IOError at line 540, outside the try.
SerialRow(row, member_table, fc, json, names) ==
    LET groups == SelectSeq(member_table,
                            LAMBDA m : m.Ensemble_Member = row.Ensemble_Member)
        sf == StepForecasts(fc, groups[1].group, row.Track_ID, names)
    IN  IF groups = <<>> THEN [raised |-> "IndexError"]
        ELSE IF StepForecastsError(fc, groups[1].group, names) # ""
             THEN [raised |-> "KeyError"]
        ELSE IF RowPath(row) \notin DOMAIN json THEN [raised |-> "IOError"]
        ELSE IF InjectError(json[RowPath(row)], sf) # ""
             THEN [raised |-> InjectError(json[RowPath(row)], sf)]
        ELSE [raised |-> "", track_obj |-> Inject(json[RowPath(row)], sf)]

ExportNames(n) == [condition |-> n, size |-> n, dist |-> n, track |-> n]

\* output_forecasts_json (lines 510-569): the rows of the per-track table in
\* order, up to the first one whose body raises.
SerialExport(total_tracks, member_table, fc, json, names) ==
    LET done == [r \in DOMAIN total_tracks |->
                    SerialRow(total_tracks[r], member_table, fc, json, names)]
        raising == {r \in DOMAIN done : done[r].raised # ""}
        n == IF raising = {} THEN Len(done) ELSE MinOf(raising) - 1
    IN  [raised |-> IF raising = {} THEN "" ELSE done[n + 1].raised,
         written |-> {RowPath(total_tracks[r]) : r \in 1..n},
         out |-> [pt \in {RowPath(total_tracks[r]) : r \in 1..n} |->
                     done[MaxOf({r \in 1..n : RowPath(total_tracks[r]) = pt})].track_obj],
         dirs |-> UNION {TrackDirs(total_tracks[r]) : r \in 1..n}]

OutputForecastsJson(names) ==
    /\ "total" \in DOMAIN data["forecast"]
    /\ \E total_tracks \in {data["forecast"]["total"]} :
       \E e \in {SerialExport(total_tracks, data["forecast"]["member"], forecasts,
                              disk.json, names)} :
           /\ disk' = [disk EXCEPT
                  !.out = [pt \in (DOMAIN @) \cup DOMAIN e.out |->
                              IF pt \in DOMAIN e.out THEN e.out[pt] ELSE @[pt]],
                  !.dirs = @ \cup e.dirs]
           /\ call' = [op |-> "output_forecasts_json",
                       raised |-> e.raised,
                       names |-> names,
                       rows |-> total_tracks,
                       written |-> e.written]
    /\ UNCHANGED <<data, condition_models, size_models, size_distribution_models,
                   track_models, forecasts, dates>>

\* output_forecast (lines 611-652) for row r of the table total_group, with
\* the arguments output_forecasts_json_parallel (lines 586-605) gives it: a
\* feature file that does not exist is caught as IOError and the unit
\* returns.
OutputForecast(r, names) ==
    /\ "total_group" \in DOMAIN data["forecast"]
    /\ r \in DOMAIN data["forecast"]["total_group"]
    /\ \E row \in {data["forecast"]["total_group"][r]} :
          /\ StepForecastsError(forecasts, row.group, names) = ""
          /\ \E sf \in {StepForecasts(forecasts, row.group, row.Track_ID, names)} :
                IF RowPath(row) \notin DOMAIN disk.json
                THEN /\ call' = [op |-> "output_forecast", raised |-> "", names |-> names,
                                 rows |-> <<row>>, written |-> {}]
                     /\ UNCHANGED disk
                ELSE IF InjectError(disk.json[RowPath(row)], sf) # ""
                THEN /\ call' = [op |-> "output_forecast",
                                 raised |-> InjectError(disk.json[RowPath(row)], sf),
                                 names |-> names, rows |-> <<row>>, written |-> {}]
                     /\ UNCHANGED disk
                ELSE /\ disk' = [disk EXCEPT
                            !.out = Put(@, RowPath(row),
                                        Inject(disk.json[RowPath(row)], sf)),
                            !.dirs = @ \cup TrackDirs(row)]
                     /\ call' = [op |-> "output_forecast", raised |-> "", names |-> names,
                                 rows |-> <<row>>, written |-> {RowPath(row)}]
    /\ UNCHANGED <<data, condition_models, size_models, size_distribution_models,
                   track_models, forecasts, dates>>

\* A well-formed feature file of n features.
TrackObj(n, tag) ==
    [features |-> [i \in 1..n |->
                      [geometry |-> 10 * tag + i,
                       properties |-> Put(Put(EmptyDict, Attributes, i), <<"id">>, i)]]]

\* The member file that lists every member.
FullMemberTable ==
    MemberTable \o << [Ensemble_Member |-> <<"m3">>, group |-> <<"B">>] >>

\* The training files of the export runs: m2 has steps of three sizes.
ExportTrainFiles ==
    LET f == StepFileOf("train", 1, <<1, 5, 46>>, 8, 1)
    IN  {TotalFileOf("train", 1, -3, 7),
         [f EXCEPT !.rows = @ \o << StepRowOf(<<"m2">>, 1, "001", 2, 6, 1),
                                    StepRowOf(<<"m2">>, 1, "001", 3, 1, 1) >>]}

\* How many features the feature file of a track can hold (0: no file);
\* the forecast tables hold two steps of m1's track and one of the others.
MaxFeatures == 2

\* The state after a forecast run: load_data of both modes, the fit_* of
\* the four families with model_names names, and their predictions, put
\* together as the dict forecasts that the export is given.
InitExport ==
    \E member \in {MemberTable, FullMemberTable}, names \in NameLists,
       n1 \in {0, MaxFeatures}, n2 \in 0..MaxFeatures :
        LET train == LoadDataResult(EmptyDict, ExportTrainFiles, member, "train", 1, 1).cache
            fcst == LoadDataResult(EmptyDict,
                                   {TotalFile("forecast", 1), StepFile("forecast", 1)},
                                   member, "forecast", 1, 1).cache
            order == CHOOSE o \in TypeOrders : TRUE
            cm == ConditionFit(train, EmptyDict, names, 1, NoFailure).reg
            sm == SizeFit(train, EmptyDict, names, 1, 1, 2, NoFailure).fit.reg
            dm == SizeDistributionFit(train, EmptyDict, names, NoFailure).reg
            tm == TrackFit(train, NoTrackModels, names,
                           [t \in TrackTypes |-> <<-1, 1, 1>>], order, NoFailure).fit.reg
            m3 == TotalRowOf(<<"m3">>, 1, "002", -5)
        IN  /\ dates = [m \in Modes |-> [start |-> 1, end |-> 1]]
            /\ data = [m \in Modes |-> IF m = "train" THEN train ELSE fcst]
            /\ condition_models = cm
            /\ size_models = sm
            /\ size_distribution_models = dm
            /\ track_models = tm
            /\ \A g \in DOMAIN cm :
                  ConditionGroupError(cm[g], GroupData(fcst["combo"], g), names) = ""
            /\ RegistryErrors(sm, fcst["combo"], names) = {}
            /\ \A g \in DOMAIN dm :
                  DistGroupError(dm[g], GroupData(fcst["combo"], g), names) = ""
            /\ \A t \in DOMAIN tm : RegistryErrors(tm[t], fcst["combo"], names) = {}
            /\ forecasts =
                   [f \in {"condition", "size", "dist", "track"} |->
                       CASE f = "condition" -> ConditionPredictions(cm, fcst["combo"], names)
                         [] f = "size" -> SizePredictions(sm, fcst["combo"], names)
                         [] f = "dist" -> DistPredictions(dm, fcst["combo"], names)
                         [] f = "track" -> TrackPredictions(tm, fcst["combo"], names)]
            /\ disk = [EmptyDisk EXCEPT
                          !.member = [m \in Modes |-> member],
                          !.json = [pt \in {RowPath(fcst["total"][r])
                                               : r \in {q \in 1..3 :
                                                           <<n1, n2, 1>>[q] > 0}} |->
                                       LET r == CHOOSE q \in 1..3 :
                                                    RowPath(fcst["total"][q]) = pt
                                       IN  TrackObj(<<n1, n2, 1>>[r], r)]]
            /\ call = [op |-> "predict", raised |-> "", saved |-> NoSave]

\* The export of a run is given the model names the run predicted with, or
\* some of them.
NextExport ==
    \/ \E names \in NameLists :
          OutputForecastsJson(ExportNames(names))
    \/ \E names \in NameLists, r \in 1..3 :
          OutputForecast(r, ExportNames(names))

SpecExport == InitExport /\ [][NextExport]_vars

ExportOps == {"output_forecasts_json", "output_forecast"}

\* The rows of track track_id in the table of a model, without the metadata
\* columns: the model's prediction columns.
PredictionRows(table, track_id) ==
    LET rows == SelectSeq(table.rows, LAMBDA row : row[1] = track_id)
    IN  [i \in DOMAIN rows |-> SubSeq(rows[i], Len(MetadataCols) + 1, Len(rows[i]))]

GroupOfMember(member) ==
    (CHOOSE m \in Range(data["forecast"]["member"]) : m.Ensemble_Member = member).group

\* What the tables of forecasts hold for a track, per property key: the
\* rows of the track, as scalars for a condition model and as the lists of
\* the model's prediction columns for the others.
Expected(row, names) ==
    LET g == GroupOfMember(row.Ensemble_Member)
        id == row.Track_ID
        hyphens(n) == Replace(n, " ", "-")
    IN  {<<<<"condition", "_">> \o hyphens(names.condition[m]),
           LET rows == PredictionRows(forecasts["condition"][g], id)
           IN  [i \in DOMAIN rows |-> rows[i][m]]>> : m \in DOMAIN names.condition}
        \cup {<<<<"size", "_">> \o hyphens(n), PredictionRows(forecasts["size"][g][n], id)>>
                 : n \in Range(names.size)}
        \cup {<<<<"dist", "_">> \o hyphens(n), PredictionRows(forecasts["dist"][g][n], id)>>
                 : n \in Range(names.dist)}
        \cup UNION {{<<t \o <<"_">> \o hyphens(n),
                       PredictionRows(forecasts["track"][t][g][n], id)>>
                        : n \in Range(names.track)} : t \in DOMAIN forecasts["track"]}

\* C1: after output_forecasts_json and after output_forecast, for a track
\* whose feature file holds N features and whose prediction tables each
\* hold N rows for its Track_ID, the written file holds the features of the
\* source file in the order they were read, and its i-th feature carries,
\* under every property key, the values of the i-th prediction row of the
\* track: a scalar for a condition key, the list of the model's prediction
\* columns for every other key.
C1_ExportAlignment ==
    call.op \in ExportOps
        => \A r \in DOMAIN call.rows :
              RowPath(call.rows[r]) \in call.written
                  => \A expected \in {Expected(call.rows[r], call.names)} :
                        LET src == disk.json[RowPath(call.rows[r])].features
                            out == disk.out[RowPath(call.rows[r])].features
                        IN  (\A x \in expected : Len(x[2]) = Len(src))
                                => /\ Len(out) = Len(src)
                                   /\ \A i \in DOMAIN src :
                                         /\ out[i].geometry = src[i].geometry
                                         /\ \A x \in expected :
                                               /\ x[1] \in DOMAIN out[i].properties
                                               /\ out[i].properties[x[1]] = x[2][i]

\* A serial export that wrote the file of a track of two features, with a
\* model whose name has a space, and the file of another track.
C1_Witness ==
    /\ call.op = "output_forecasts_json"
    /\ Cardinality(call.written) >= 2
    /\ \E n \in Range(call.names.size) : Has(n, " ")
    /\ \E r \in DOMAIN call.rows :
          /\ RowPath(call.rows[r]) \in call.written
          /\ Len(disk.out[RowPath(call.rows[r])].features) = 2
          /\ \A x \in Expected(call.rows[r], call.names) : Len(x[2]) = 2

\* What stands in the way of the export of a row, "" for nothing.
Obstacle(row) ==
    SerialRow(row, data["forecast"]["member"], forecasts, disk.json, call.names).raised

\* C2: when the feature files of some tracks do not exist and nothing else
\* stands in the way of a track, the export raises nothing, writes no file
\* for the tracks without a feature file, and writes the file of every
\* other track; in output_forecasts_json and in output_forecast.
C2_MissingSourceSkipped ==
    (/\ call.op \in ExportOps
     /\ \A r \in DOMAIN call.rows : Obstacle(call.rows[r]) \in {"", "IOError"})
        => /\ call.raised = ""
           /\ call.written = {RowPath(call.rows[r])
                                 : r \in {q \in DOMAIN call.rows :
                                             Obstacle(call.rows[q]) = ""}}

----------------------------------------------------------------------------
(* Prediction for groups the registries do not hold.  The groups of a      *)
(* registry are those of the training member file (lines 153, 197, 260,    *)
(* 332); the forecast member file may list more.                           *)

\* predict_condition_models (lines 182-191): the loop ends at the first
\* group whose body raises.
PredictConditionModels(model_names) ==
    /\ ForecastLoaded  \* before load_data the loop raises KeyError
    /\ \E combo \in {data["forecast"]["combo"]} :
       \E errs \in {{ConditionGroupError(condition_models[g], GroupData(combo, g),
                                         model_names) : g \in DOMAIN condition_models}
                        \ {""}} :
           IF errs # {}
           THEN /\ \E e \in errs : call' = [op |-> "predict_condition_models", raised |-> e]
                /\ UNCHANGED forecasts
           ELSE /\ forecasts' =
                       Put(EmptyDict, "condition",
                           ConditionPredictions(condition_models, combo, model_names))
                /\ call' = [op |-> "predict_condition_models", raised |-> ""]
    /\ UNCHANGED <<data, condition_models, size_models, size_distribution_models,
                   track_models, dates, disk>>

\* predict_size_distribution_models (lines 216-238).
PredictSizeDistributionModels(model_names) ==
    /\ ForecastLoaded  \* before load_data the loop raises KeyError
    /\ \E combo \in {data["forecast"]["combo"]} :
       \E errs \in {{DistGroupError(size_distribution_models[g], GroupData(combo, g),
                                    model_names) : g \in DOMAIN size_distribution_models}
                        \ {""}} :
           IF errs # {}
           THEN /\ \E e \in errs :
                      call' = [op |-> "predict_size_distribution_models", raised |-> e]
                /\ UNCHANGED forecasts
           ELSE /\ forecasts' =
                       Put(EmptyDict, "dist",
                           DistPredictions(size_distribution_models, combo, model_names))
                /\ call' = [op |-> "predict_size_distribution_models", raised |-> ""]
    /\ UNCHANGED <<data, condition_models, size_models, size_distribution_models,
                   track_models, dates, disk>>

\* A training member file that lists m1 only: group B is not trained.
TrainMemberTables == {SubSeq(MemberTable, 1, 1), MemberTable}

\* The state after __init__ and load_data of both modes, with a member file
\* per mode (self.member_files[mode], line 82).
InitPredict ==
    \E train_member \in TrainMemberTables,
       forecast_member \in {MemberTable, FullMemberTable} :
        /\ dates = [m \in Modes |-> [start |-> 1, end |-> 1]]
        /\ disk = [EmptyDisk EXCEPT
                      !.member = [m \in Modes |-> IF m = "train" THEN train_member
                                                  ELSE forecast_member]]
        /\ data = [m \in Modes |->
                      IF m = "train"
                      THEN LoadDataResult(EmptyDict, ExportTrainFiles, train_member,
                                          m, 1, 1).cache
                      ELSE LoadDataResult(EmptyDict,
                                          {TotalFile(m, 1), StepFile(m, 1)},
                                          forecast_member, m, 1, 1).cache]
        /\ condition_models = EmptyDict
        /\ size_models = EmptyDict
        /\ size_distribution_models = EmptyDict
        /\ track_models = NoTrackModels
        /\ forecasts = EmptyDict
        /\ call = [op |-> "load_data", mode |-> "forecast", raised |-> ""]

NextPredict ==
    \/ \E names \in NameLists : FitConditionModels(names, 1, NoFailure)
    \/ \E names \in NameLists : FitSizeModels(names, 1, 1, 2, NoFailure)
    \/ \E names \in NameLists : FitSizeDistributionModels(names, NoFailure)
    \/ \E names \in NameLists, o \in TypeOrders :
          FitTrackModels(names, [t \in TrackTypes |-> <<-1, 1, 1>>], o, NoFailure)
    \/ \E names \in NameLists : PredictConditionModels(names)
    \/ \E names \in NameLists : PredictSizeModels(names)
    \/ \E names \in NameLists : PredictSizeDistributionModels(names)
    \/ \E names \in NameLists : PredictTrackModels(names)

SpecPredict == InitPredict /\ [][NextPredict]_vars

\* The registries a predict_* reads, as a set of group -> entry dicts, and
\* the dicts group -> ... it returned.
RegistriesOf(op) ==
    CASE op = "predict_condition_models" -> {condition_models}
      [] op = "predict_size_models" -> {size_models}
      [] op = "predict_size_distribution_models" ->
             {[g \in DOMAIN size_distribution_models |->
                  size_distribution_models[g][Multi]]}
      [] op = "predict_track_models" -> {track_models[t] : t \in DOMAIN track_models}
      [] OTHER -> {}

ReturnedBy(op) ==
    CASE op = "predict_condition_models" -> {forecasts["condition"]}
      [] op = "predict_size_models" -> {forecasts["size"]}
      [] op = "predict_size_distribution_models" -> {forecasts["dist"]}
      [] op = "predict_track_models" -> {forecasts["track"][t] : t \in DOMAIN forecasts["track"]}
      [] OTHER -> {}

\* The tables of what a predict_* returned for one group.
TablesOf(op, predictions) ==
    IF op = "predict_condition_models" THEN {predictions}
    ELSE {predictions[n] : n \in DOMAIN predictions}

ForecastGroups == {r.group : r \in Range(data["forecast"]["combo"])}

\* Every group of the registry holds a fitted handle for every model name
\* that a call can ask for.
HoldsAllModels(reg) ==
    \A g \in DOMAIN reg : \A n \in {RF, GBT} : n \in DOMAIN reg[g] /\ reg[g][n].fitted

\* The group of the step a prediction row is about.
GroupOfStep(step_id) ==
    {r.group : r \in {x \in Range(data["forecast"]["combo"]) : x.Step_ID = step_id}}

\* C12: when a group of the forecast data is in no entry of the registry of
\* a family, and the registry holds the models asked for, each of the four
\* predict_* completes without error; what it returns has an entry only for
\* groups of the registry, one for every group of the registry that has
\* forecast rows, and no table of it has a row of a group the registry does
\* not hold.
C12_AbsentGroupExcluded ==
    \A regs \in {RegistriesOf(call.op)} :
        (/\ regs # {}
         /\ \A reg \in regs : HoldsAllModels(reg) /\ ForecastGroups \ DOMAIN reg # {})
            => /\ call.raised = ""
               /\ \A reg \in regs :
                     \E ret \in ReturnedBy(call.op) :
                        /\ DOMAIN ret \subseteq DOMAIN reg
                        /\ ForecastGroups \cap DOMAIN reg \subseteq DOMAIN ret
               /\ \A ret \in ReturnedBy(call.op) :
                     \A g \in DOMAIN ret :
                        \A table \in TablesOf(call.op, ret[g]) :
                           \A i \in DOMAIN table.rows :
                              GroupOfStep(table.rows[i][2]) = {g}

\* Each of the four predict_* has returned tables for group A while the
\* forecast data has rows of group B, which its registry does not hold.
C12_WitnessOf(op) ==
    /\ call.op = op
    /\ call.raised = ""
    /\ <<"B">> \in ForecastGroups
    /\ \A reg \in RegistriesOf(op) : HoldsAllModels(reg) /\ DOMAIN reg = {<<"A">>}
    /\ \A ret \in ReturnedBy(op) :
          /\ DOMAIN ret = {<<"A">>}
          /\ \E table \in TablesOf(op, ret[<<"A">>]) : table.rows # <<>>

C12_Witness ==
    \/ C12_WitnessOf("predict_condition_models")
    \/ C12_WitnessOf("predict_track_models")

----------------------------------------------------------------------------
(* The parallel export: output_forecasts_json_parallel (lines 579-608) and *)
(* the units output_forecast (lines 611-652) that the workers of its pool  *)
(* run.  While the operation runs, call holds its position: pc is where    *)
(* the caller stands, r the row it dispatches next, units the tasks given  *)
(* to the pool, in the order of apply_async, each with the step st its     *)
(* worker stands at.  A worker takes the tasks in that order; the steps of *)
(* the units that run interleave, and the file system is what they share.  *)

Parallel == "output_forecasts_json_parallel"

\* The greatest num_procs of a pool.
MaxProcs == 2

Running(units) == {u \in DOMAIN units : units[u].st \notin {"queued", "done"}}

\* No export is under way: the caller is back and the workers are idle.
Idle ==
    call.op = Parallel
        => /\ call.pc \in {"returned", "raised"}
           /\ \A u \in DOMAIN call.units : call.units[u].st = "done"

\* Pool(num_procs) and the table the loop walks (lines 579-580).
ParallelStart(names, num_procs) ==
    /\ Idle
    /\ "total_group" \in DOMAIN data["forecast"]
    /\ call' = [op |-> Parallel, raised |-> "", names |-> names,
                rows |-> data["forecast"]["total_group"],
                clean |-> disk.out = EmptyDict,
                num_procs |-> num_procs, pc |-> "dispatch", r |-> 1, units |-> <<>>]
    /\ UNCHANGED <<data, condition_models, size_models, size_distribution_models,
                   track_models, forecasts, dates, disk>>

\* One turn of the loop (lines 581-605): step_forecasts of the row is built
\* by the caller, where a KeyError leaves the operation, and the unit is
\* handed to the pool.
PoolApplyAsync ==
    /\ call.op = Parallel /\ call.pc = "dispatch"
    /\ call.r <= Len(call.rows)
    /\ call' = IF StepForecastsError(forecasts, call.rows[call.r].group, call.names) # ""
               THEN [call EXCEPT !.pc = "raised", !.raised = "KeyError"]
               ELSE [call EXCEPT !.r = @ + 1,
                                 !.units = Append(@, [r |-> call.r, st |-> "queued",
                                                      part |-> 1, outcome |-> "",
                                                      lost |-> FALSE])]
    /\ UNCHANGED <<data, condition_models, size_models, size_distribution_models,
                   track_models, forecasts, dates, disk>>

\* pool.close() (line 606), after the last row.
PoolClose ==
    /\ call.op = Parallel /\ call.pc = "dispatch"
    /\ call.r > Len(call.rows)
    /\ call' = [call EXCEPT !.pc = "join"]
    /\ UNCHANGED <<data, condition_models, size_models, size_distribution_models,
                   track_models, forecasts, dates, disk>>

\* A faulty variant of Joined that waits for the units to be taken by a
\* worker only.
JoinedWhenStarted(units) == \A u \in DOMAIN units : units[u].st # "queued"

\* What pool.join() waits for: every task has been run to its end.
Joined(units) == \A u \in DOMAIN units : units[u].st = "done"

\* pool.join() and the return (lines 607-608).
PoolJoin ==
    /\ call.op = Parallel /\ call.pc = "join"
    /\ Joined(call.units)
    /\ call' = [call EXCEPT !.pc = "returned"]
    /\ UNCHANGED <<data, condition_models, size_models, size_distribution_models,
                   track_models, forecasts, dates, disk>>

\* A free worker takes the first task of the queue.
UnitStart(u) ==
    /\ call.op = Parallel
    /\ u \in DOMAIN call.units
    /\ call.units[u].st = "queued"
    /\ \A v \in 1..(u - 1) : call.units[v].st # "queued"
    /\ Cardinality(Running(call.units)) < call.num_procs
    /\ call' = [call EXCEPT !.units[u].st = "read"]
    /\ UNCHANGED <<data, condition_models, size_models, size_distribution_models,
                   track_models, forecasts, dates, disk>>

UnitRow(u) == call.rows[call.units[u].r]

\* The object a unit writes: the features of the source file with the
\* values of step_forecasts.
UnitObject(u) ==
    Inject(disk.json[RowPath(UnitRow(u))],
           StepForecasts(forecasts, UnitRow(u).group, UnitRow(u).Track_ID, call.names))

\* Lines 612-635: the source file is read, where IOError ends the unit, and
\* the features get their values, where an exception ends the task and stays
\* in its result, which nothing reads.
UnitRead(u) ==
    /\ call.op = Parallel
    /\ u \in DOMAIN call.units
    /\ call.units[u].st = "read"
    /\ call' =
          IF RowPath(UnitRow(u)) \notin DOMAIN disk.json
          THEN [call EXCEPT !.units[u].st = "done", !.units[u].outcome = "skipped"]
          ELSE IF InjectError(disk.json[RowPath(UnitRow(u))],
                              StepForecasts(forecasts, UnitRow(u).group,
                                            UnitRow(u).Track_ID, call.names)) # ""
          THEN [call EXCEPT !.units[u].st = "done", !.units[u].outcome = "failed"]
          ELSE [call EXCEPT !.units[u].st = "access"]
    /\ UNCHANGED <<data, condition_models, size_models, size_distribution_models,
                   track_models, forecasts, dates, disk>>

\* out_path + "/".join(full_path) for the first part and for both.
UnitDir(row, part) ==
    LET run_date == RunDate(TrackIdStr(row.Track_ID))
    IN  IF part = 1 THEN run_date ELSE Join(<<run_date, row.Ensemble_Member>>, "/")

\* os.access (lines 639): a directory that is there is not made.
UnitAccess(u) ==
    /\ call.op = Parallel
    /\ u \in DOMAIN call.units
    /\ call.units[u].st = "access"
    /\ call' =
          IF UnitDir(UnitRow(u), call.units[u].part) \notin disk.dirs
          THEN [call EXCEPT !.units[u].st = "mkdir"]
          ELSE IF call.units[u].part = 1
          THEN [call EXCEPT !.units[u].part = 2]
          ELSE [call EXCEPT !.units[u].st = "write"]
    /\ UNCHANGED <<data, condition_models, size_models, size_distribution_models,
                   track_models, forecasts, dates, disk>>

\* A faulty variant of AfterMkdir in which OSError is not caught.
AfterMkdirUncaught(unit, oserror) ==
    IF oserror THEN [unit EXCEPT !.st = "done", !.outcome = "failed", !.lost = TRUE]
    ELSE IF unit.part = 1 THEN [unit EXCEPT !.st = "access", !.part = 2]
    ELSE [unit EXCEPT !.st = "write"]

\* Lines 640-643: OSError of os.mkdir is caught and the unit goes on.
AfterMkdir(unit, oserror) ==
    IF unit.part = 1
    THEN [unit EXCEPT !.st = "access", !.part = 2, !.lost = @ \/ oserror]
    ELSE [unit EXCEPT !.st = "write", !.lost = @ \/ oserror]

\* os.mkdir (line 641), which raises OSError when another unit has made the
\* directory since os.access.
UnitMkdir(u) ==
    /\ call.op = Parallel
    /\ u \in DOMAIN call.units
    /\ call.units[u].st = "mkdir"
    /\ \E dir \in {UnitDir(UnitRow(u), call.units[u].part)} :
          /\ call' = [call EXCEPT !.units[u] = AfterMkdir(@, dir \in disk.dirs)]
          /\ disk' = [disk EXCEPT !.dirs = @ \cup {dir}]
    /\ UNCHANGED <<data, condition_models, size_models, size_distribution_models,
                   track_models, forecasts, dates>>

\* Lines 644-651: the file is written; IOError, of a directory that is not
\* there, is caught.
UnitWrite(u) ==
    /\ call.op = Parallel
    /\ u \in DOMAIN call.units
    /\ call.units[u].st = "write"
    /\ IF UnitDir(UnitRow(u), 2) \in disk.dirs
       THEN /\ disk' = [disk EXCEPT !.out = Put(@, RowPath(UnitRow(u)), UnitObject(u))]
            /\ call' = [call EXCEPT !.units[u].st = "done",
                                    !.units[u].outcome = "written"]
       ELSE /\ call' = [call EXCEPT !.units[u].st = "done",
                                    !.units[u].outcome = "skipped"]
            /\ UNCHANGED disk
    /\ UNCHANGED <<data, condition_models, size_models, size_distribution_models,
                   track_models, forecasts, dates>>

\* A second run of member m1 on the day d, started at 12:00: the same track
\* number as the track of the run of 00:00, another Track_ID.
RerunId(d) == [member |-> <<"m1">>, day |-> d, num |-> "001", hour |-> "1200"]

RerunTotalRow(d) == [TotalRowOf(<<"m1">>, d, "001", 2) EXCEPT !.Track_ID = RerunId(d)]

RerunStepRow(d, k) ==
    [StepRowOf(<<"m1">>, d, "001", k, 9, 1) EXCEPT
        !.Track_ID = RerunId(d),
        !.Step_ID = [track |-> RerunId(d), step |-> k],
        !.Input = k + 2]

\* The forecast files of the run dates 1..last; with rerun, those of day 1
\* hold the second run of m1 too.
ForecastFiles(last, rerun) ==
    {IF rerun /\ d = 1
     THEN [TotalFile("forecast", d) EXCEPT !.rows = @ \o <<RerunTotalRow(d)>>]
     ELSE TotalFile("forecast", d) : d \in 1..last}
    \cup
    {IF rerun /\ d = 1
     THEN [StepFile("forecast", d) EXCEPT
              !.rows = @ \o [k \in 1..MaxFeatures |-> RerunStepRow(d, k)]]
     ELSE StepFile("forecast", d) : d \in 1..last}

\* The runs of the parallel export: which groups were trained, which members
\* the forecast member file lists, the last run date, whether m1 ran twice
\* on a day, and whether the feature file of m1's first track is there.
Worlds ==
    LET base == [train_member |-> MemberTable, forecast_member |-> FullMemberTable,
                 last |-> 1, rerun |-> FALSE, m1_file |-> TRUE]
    IN  {base,
         [base EXCEPT !.m1_file = FALSE],
         [base EXCEPT !.forecast_member = MemberTable, !.last = MaxDay],
         [base EXCEPT !.train_member = SubSeq(MemberTable, 1, 1)],
         [base EXCEPT !.rerun = TRUE]}

\* The feature files of the tracks of the per-track table: MaxFeatures
\* features for a track of m1, one for the others.
FeatureFiles(total, m1_file) ==
    LET rows == {r \in DOMAIN total :
                    m1_file \/ total[r].Track_ID # TrackId(<<"m1">>, 1, "001")}
    IN  [pt \in {RowPath(total[r]) : r \in rows} |->
            LET r == MinOf({q \in rows : RowPath(total[q]) = pt})
            IN  TrackObj(IF total[r].Ensemble_Member = <<"m1">> THEN MaxFeatures ELSE 1, r)]

\* The state after a forecast run: load_data of both modes, the four fit_*
\* with the model names RF and GBT, and the four predict_*, whose results
\* are the dict forecasts that the export is given.
InitParallel ==
    \E w \in Worlds :
        LET train == LoadDataResult(EmptyDict, ExportTrainFiles, w.train_member,
                                    "train", 1, 1).cache
            fcst == LoadDataResult(EmptyDict, ForecastFiles(w.last, w.rerun),
                                   w.forecast_member, "forecast", 1, w.last).cache
            names == <<RF, GBT>>
            order == CHOOSE o \in TypeOrders : TRUE
            cm == ConditionFit(train, EmptyDict, names, 1, NoFailure).reg
            sm == SizeFit(train, EmptyDict, names, 1, 1, 2, NoFailure).fit.reg
            dm == SizeDistributionFit(train, EmptyDict, names, NoFailure).reg
            tm == TrackFit(train, NoTrackModels, names,
                           [t \in TrackTypes |-> <<-1, 1, 1>>], order, NoFailure).fit.reg
        IN  /\ dates = [m \in Modes |-> [start |-> 1,
                                         end |-> IF m = "train" THEN 1 ELSE w.last]]
            /\ data = [m \in Modes |-> IF m = "train" THEN train ELSE fcst]
            /\ condition_models = cm
            /\ size_models = sm
            /\ size_distribution_models = dm
            /\ track_models = tm
            /\ \A g \in DOMAIN cm :
                  ConditionGroupError(cm[g], GroupData(fcst["combo"], g), names) = ""
            /\ RegistryErrors(sm, fcst["combo"], names) = {}
            /\ \A g \in DOMAIN dm :
                  DistGroupError(dm[g], GroupData(fcst["combo"], g), names) = ""
            /\ \A t \in DOMAIN tm : RegistryErrors(tm[t], fcst["combo"], names) = {}
            /\ forecasts =
                   [f \in {"condition", "size", "dist", "track"} |->
                       CASE f = "condition" -> ConditionPredictions(cm, fcst["combo"], names)
                         [] f = "size" -> SizePredictions(sm, fcst["combo"], names)
                         [] f = "dist" -> DistPredictions(dm, fcst["combo"], names)
                         [] f = "track" -> TrackPredictions(tm, fcst["combo"], names)]
            /\ disk = [EmptyDisk EXCEPT
                          !.member = [m \in Modes |-> IF m = "train" THEN w.train_member
                                                      ELSE w.forecast_member],
                          !.json = FeatureFiles(fcst["total"], w.m1_file)]
            /\ call = [op |-> "predict", raised |-> "", saved |-> NoSave]

\* The tasks of the pool of the export under way.
Units == IF call.op = Parallel THEN DOMAIN call.units ELSE {}

NextParallel ==
    \/ \E names \in NameLists, num_procs \in 1..MaxProcs :
          ParallelStart(ExportNames(names), num_procs)
    \/ PoolApplyAsync
    \/ PoolClose
    \/ PoolJoin
    \/ \E u \in Units : UnitStart(u)
    \/ \E u \in Units : UnitRead(u)
    \/ \E u \in Units : UnitAccess(u)
    \/ \E u \in Units : UnitMkdir(u)
    \/ \E u \in Units : UnitWrite(u)
    \/ /\ Idle
       /\ \E names \in NameLists : OutputForecastsJson(ExportNames(names))

SpecParallel == InitParallel /\ [][NextParallel]_vars

\* An export has ended: the serial one, or the parallel one with its caller
\* back and its workers idle.
ExportEnded ==
    \/ call.op = "output_forecasts_json"
    \/ call.op = Parallel /\ Idle

\* The prediction tables handed to the export have no entry for the group.
AbsentFromTables(group) ==
    \/ \E f \in {"condition", "size", "dist"} : group \notin DOMAIN forecasts[f]
    \/ \E t \in DOMAIN forecasts["track"] : group \notin DOMAIN forecasts["track"][t]

\* C13: when the forecast track table has a track whose group has no entry
\* in the prediction tables handed to the export, output_forecasts_json and
\* output_forecasts_json_parallel raise nothing to the caller, and the file
\* of every track of the other groups is written.
C13_AbsentGroupNotFatal ==
    (/\ ExportEnded
     /\ \E i \in DOMAIN data["forecast"]["total_group"] :
           AbsentFromTables(data["forecast"]["total_group"][i].group))
        => /\ call.raised = ""
           /\ \A i \in DOMAIN data["forecast"]["total_group"] :
                 \A row \in {data["forecast"]["total_group"][i]} :
                    (~AbsentFromTables(row.group) /\ RowPath(row) \in DOMAIN disk.json)
                        => RowPath(row) \in DOMAIN disk.out

\* C14: in the parallel export, the units of two rows with different
\* Track_ID have different output paths, and the file a unit has written
\* holds what that unit wrote, under every interleaving.
C14_DistinctOutputFiles ==
    call.op = Parallel
        => /\ \A u, v \in DOMAIN call.units :
                 UnitRow(u).Track_ID # UnitRow(v).Track_ID
                     => RowPath(UnitRow(u)) # RowPath(UnitRow(v))
           /\ \A u \in DOMAIN call.units :
                 call.units[u].outcome = "written"
                     => disk.out[RowPath(UnitRow(u))] = UnitObject(u)

\* C15: when output_forecasts_json_parallel returns, it has dispatched one
\* unit for every row of the per-track view total_group, in the order of the
\* rows, and every unit has ended: it has written its file, was skipped or
\* failed; none is queued or running.
C15_ReturnsAfterAllUnits ==
    (call.op = Parallel /\ call.pc = "returned")
        => /\ Len(call.units) = Len(data["forecast"]["total_group"])
           /\ \A u \in DOMAIN call.units :
                 /\ call.units[u].r = u
                 /\ call.units[u].st = "done"
                 /\ call.units[u].outcome \in {"written", "skipped", "failed"}
                 /\ call.units[u].outcome = "written"
                       => RowPath(UnitRow(u)) \in DOMAIN disk.out

\* A pool of two workers has returned from three or more units, one of them
\* skipped for its missing feature file and another written.
C15_Witness ==
    /\ call.op = Parallel /\ call.pc = "returned"
    /\ call.num_procs = 2
    /\ Len(call.units) >= 3
    /\ \E u, v \in DOMAIN call.units :
          call.units[u].outcome = "skipped" /\ call.units[v].outcome = "written"

\* The unit had a feature file to read and values for each of its features.
Exportable(u) ==
    /\ RowPath(UnitRow(u)) \in DOMAIN disk.json
    /\ InjectError(disk.json[RowPath(UnitRow(u))],
                   StepForecasts(forecasts, UnitRow(u).group, UnitRow(u).Track_ID,
                                 call.names)) = ""

\* C16: a unit whose os.mkdir found the directory made by another unit in
\* the meantime does not fail: it goes on and writes its file; under every
\* interleaving, every unit that has something to write has written its
\* file when it ends.
C16_MkdirRaceTolerated ==
    call.op = Parallel
        => \A u \in DOMAIN call.units :
              /\ call.units[u].lost => call.units[u].outcome # "failed"
              /\ (call.units[u].st = "done" /\ Exportable(u))
                    => /\ call.units[u].outcome = "written"
                       /\ RowPath(UnitRow(u)) \in DOMAIN disk.out
                       /\ \A part \in 1..2 : UnitDir(UnitRow(u), part) \in disk.dirs

\* Two units found the run-date directory missing, one lost the race for
\* making it, and both have written their files.
C16_Witness ==
    /\ call.op = Parallel
    /\ \E u, v \in DOMAIN call.units :
          /\ u # v
          /\ UnitDir(UnitRow(u), 1) = UnitDir(UnitRow(v), 1)
          /\ call.units[u].lost /\ ~call.units[v].lost
          /\ call.units[u].outcome = "written" /\ call.units[v].outcome = "written"
          /\ RowPath(UnitRow(u)) # RowPath(UnitRow(v))
          /\ {RowPath(UnitRow(u)), RowPath(UnitRow(v))} \subseteq DOMAIN disk.out

\* C17: for the same forecast data, prediction tables and feature files,
\* all of them present and one per track, the parallel export into an empty
\* out_path ends with the files, and the contents, that the serial export
\* writes; tracks of members that the member table does not list included.
C17_SerialParallelAgree ==
    (/\ call.op = Parallel /\ call.pc = "returned" /\ call.clean
     /\ \A r \in DOMAIN data["forecast"]["total"] :
           /\ RowPath(data["forecast"]["total"][r]) \in DOMAIN disk.json
           /\ \A q \in DOMAIN data["forecast"]["total"] :
                 q # r => RowPath(data["forecast"]["total"][q])
                              # RowPath(data["forecast"]["total"][r]))
        => disk.out = SerialExport(data["forecast"]["total"], data["forecast"]["member"],
                                   forecasts, disk.json, call.names).out

----------------------------------------------------------------------------
(* load_data on complete input: every file of the upstream tracking is     *)
(* there, and each mode has its own member file.                           *)

\* The member files: m1 alone, m1 and m2, and every member.
MemberTables == {SubSeq(MemberTable, 1, 1), MemberTable, FullMemberTable}

InitJoin ==
    /\ Constructed
    /\ dates \in [Modes -> DateRanges]
    /\ \E members \in [Modes -> MemberTables] :
          disk = [EmptyDisk EXCEPT !.csv = CsvFilePool, !.member = members]

NextJoin == \E mode \in Modes : LoadData(mode)

SpecJoin == InitJoin /\ [][NextJoin]_vars

====
